---------------------------- MODULE Spec2Model ----------------------------
(***************************************************************************)
(* Anomaly rule engine (src/anomaly_detector.py) and timeline builder      *)
(* (src/timeline.py) of the memory-forensics toolkit.                      *)
(*                                                                         *)
(* Python strings are sequences of one-character strings, so that lower(), *)
(* substring search, difflib's matching blocks and strptime are computed   *)
(* character by character.  A dict key that is absent and read through     *)
(* .get(key, '') is the empty sequence; an optional integer is <<>> (None) *)
(* or <<n>>.                                                               *)
(***************************************************************************)
EXTENDS Integers, Sequences, FiniteSets, TLC

VARIABLES
    common_order,   \* iteration order of the set self.common_names
    single_order,   \* iteration order of the set self.single_instance_processes
    store,          \* what db.get_processes(dump_id) returns for the dump
    store_error,    \* the class of the exception get_processes raises, or ""
    dpc,            \* detect_anomalies: "idle", "awaiting", "done", "raised"
    processes,      \* the fetched list
    anomalies,      \* detect_anomalies: the returned list
    draised,        \* detect_anomalies: the class of the exception that ended it
    rpc,            \* get_anomaly_report: "idle", "awaiting", "done", "raised"
    reported,       \* get_anomaly_report: the list its detect_anomalies returned
    report,         \* get_anomaly_report: the returned text, as its lines
    rraised,        \* get_anomaly_report: the class of the exception that ended it
    tpc,            \* generate_timeline: "idle", "awaiting", "done", "raised"
    include_types,  \* generate_timeline argument: <<>> (None) or <<list of types>>
    suspicious_only,\* generate_timeline argument
    events,         \* generate_timeline: the returned list
    raised,         \* generate_timeline: the class of the exception that ended it
    dumps,          \* what db.get_processes returns for each dump id
    runs,           \* the calls made on one detector and one generator
    frames,         \* the local variables of the calls
    schedule        \* the calls and returns so far, in the order they happened

vars == <<common_order, single_order, store, store_error,
          dpc, processes, anomalies, draised,
          rpc, reported, report, rraised,
          tpc, include_types, suspicious_only, events, raised,
          dumps, runs, frames, schedule>>

\* the variables of each operation
engine_vars == <<common_order, single_order, store, store_error>>

detect_vars == <<dpc, anomalies, draised>>

report_vars == <<rpc, reported, report, rraised>>

timeline_vars == <<tpc, include_types, suspicious_only, events, raised>>

run_vars == <<dumps, runs, frames, schedule>>

-----------------------------------------------------------------------------
(* str.lower() *)

UpperLetters ==
    <<"A","B","C","D","E","F","G","H","I","J","K","L","M",
      "N","O","P","Q","R","S","T","U","V","W","X","Y","Z">>

LowerLetters ==
    <<"a","b","c","d","e","f","g","h","i","j","k","l","m",
      "n","o","p","q","r","s","t","u","v","w","x","y","z">>

LowerChar(c) ==
    IF \E k \in 1..26 : UpperLetters[k] = c
    THEN LowerLetters[CHOOSE k \in 1..26 : UpperLetters[k] = c]
    ELSE c

Lower(s) == [k \in 1..Len(s) |-> LowerChar(s[k])]

(* needle in haystack, for Python strings *)
Contains(haystack, needle) ==
    \E k \in 0..(Len(haystack) - Len(needle)) :
        \A m \in 1..Len(needle) : haystack[k + m] = needle[m]

(* x in list *)
InList(x, list) == \E k \in 1..Len(list) : list[k] = x

-----------------------------------------------------------------------------
(* The rule tables built by AnomalyDetector.__init__ *)

\* a dict: iterated in insertion order
expected_parents ==
    <<
      \* services.exe: svchost.exe, dllhost.exe, taskhost.exe, wuauclt.exe, spoolsv.exe
      [parent |-> <<"s","e","r","v","i","c","e","s",".","e","x","e">>,
       children |-> {<<"s","v","c","h","o","s","t",".","e","x","e">>,
                     <<"d","l","l","h","o","s","t",".","e","x","e">>,
                     <<"t","a","s","k","h","o","s","t",".","e","x","e">>,
                     <<"w","u","a","u","c","l","t",".","e","x","e">>,
                     <<"s","p","o","o","l","s","v",".","e","x","e">>}],
      \* explorer.exe: chrome.exe, firefox.exe, notepad.exe, cmd.exe, powershell.exe, iexplore.exe, msedge.exe, OneDrive.exe
      [parent |-> <<"e","x","p","l","o","r","e","r",".","e","x","e">>,
       children |-> {<<"c","h","r","o","m","e",".","e","x","e">>,
                     <<"f","i","r","e","f","o","x",".","e","x","e">>,
                     <<"n","o","t","e","p","a","d",".","e","x","e">>,
                     <<"c","m","d",".","e","x","e">>,
                     <<"p","o","w","e","r","s","h","e","l","l",".","e","x","e">>,
                     <<"i","e","x","p","l","o","r","e",".","e","x","e">>,
                     <<"m","s","e","d","g","e",".","e","x","e">>,
                     <<"O","n","e","D","r","i","v","e",".","e","x","e">>}],
      \* svchost.exe: wuauclt.exe, SearchIndexer.exe, RuntimeBroker.exe, taskhostw.exe
      [parent |-> <<"s","v","c","h","o","s","t",".","e","x","e">>,
       children |-> {<<"w","u","a","u","c","l","t",".","e","x","e">>,
                     <<"S","e","a","r","c","h","I","n","d","e","x","e","r",".","e","x","e">>,
                     <<"R","u","n","t","i","m","e","B","r","o","k","e","r",".","e","x","e">>,
                     <<"t","a","s","k","h","o","s","t","w",".","e","x","e">>}],
      \* winlogon.exe: userinit.exe, LogonUI.exe
      [parent |-> <<"w","i","n","l","o","g","o","n",".","e","x","e">>,
       children |-> {<<"u","s","e","r","i","n","i","t",".","e","x","e">>,
                     <<"L","o","g","o","n","U","I",".","e","x","e">>}],
      \* userinit.exe: explorer.exe
      [parent |-> <<"u","s","e","r","i","n","i","t",".","e","x","e">>,
       children |-> {<<"e","x","p","l","o","r","e","r",".","e","x","e">>}],
      \* smss.exe: csrss.exe, wininit.exe
      [parent |-> <<"s","m","s","s",".","e","x","e">>,
       children |-> {<<"c","s","r","s","s",".","e","x","e">>,
                     <<"w","i","n","i","n","i","t",".","e","x","e">>}],
      \* wininit.exe: services.exe, lsass.exe
      [parent |-> <<"w","i","n","i","n","i","t",".","e","x","e">>,
       children |-> {<<"s","e","r","v","i","c","e","s",".","e","x","e">>,
                     <<"l","s","a","s","s",".","e","x","e">>}]
    >>

\* the set literal of self.single_instance_processes, as written
single_instance_literal ==
    <<
      <<"c","s","r","s","s",".","e","x","e">>,
      <<"s","m","s","s",".","e","x","e">>,
      <<"w","i","n","i","n","i","t",".","e","x","e">>,
      <<"s","e","r","v","i","c","e","s",".","e","x","e">>,
      <<"l","s","a","s","s",".","e","x","e">>,
      <<"w","i","n","l","o","g","o","n",".","e","x","e">>
    >>

single_instance_processes == {single_instance_literal[k] : k \in 1..Len(single_instance_literal)}

\* a list
legitimate_paths ==
    <<
      <<"C",":","\\","W","i","n","d","o","w","s","\\","S","y","s","t","e","m","3","2">>,
      <<"C",":","\\","W","i","n","d","o","w","s","\\","S","y","s","W","O","W","6","4">>,
      <<"C",":","\\","W","i","n","d","o","w","s","\\","e","x","p","l","o","r","e","r",".","e","x","e">>
    >>

\* a list of raw strings: r'\Temp\\' holds two trailing backslashes
suspicious_paths ==
    <<
      <<"\\","T","e","m","p","\\","\\">>,
      <<"\\","A","p","p","D","a","t","a","\\","L","o","c","a","l","\\","T","e","m","p">>,
      <<"\\","U","s","e","r","s","\\","P","u","b","l","i","c">>,
      <<"\\","P","r","o","g","r","a","m","D","a","t","a">>,
      <<"C",":","\\","$","R","e","c","y","c","l","e",".","B","i","n">>
    >>

\* the set literal of self.common_names, as written
common_names_literal ==
    <<
      <<"s","v","c","h","o","s","t",".","e","x","e">>,
      <<"l","s","a","s","s",".","e","x","e">>,
      <<"c","s","r","s","s",".","e","x","e">>,
      <<"e","x","p","l","o","r","e","r",".","e","x","e">>,
      <<"s","e","r","v","i","c","e","s",".","e","x","e">>,
      <<"s","m","s","s",".","e","x","e">>,
      <<"w","i","n","l","o","g","o","n",".","e","x","e">>,
      <<"w","i","n","i","n","i","t",".","e","x","e">>,
      <<"s","p","o","o","l","s","v",".","e","x","e">>,
      <<"t","a","s","k","h","o","s","t",".","e","x","e">>,
      <<"d","w","m",".","e","x","e">>,
      <<"c","o","n","h","o","s","t",".","e","x","e">>
    >>

common_names == {common_names_literal[k] : k \in 1..Len(common_names_literal)}

\* the list literal of line 121
shell_parents ==
    <<
      <<"c","m","d",".","e","x","e">>,
      <<"p","o","w","e","r","s","h","e","l","l",".","e","x","e">>,
      <<"w","s","c","r","i","p","t",".","e","x","e">>,
      <<"c","s","c","r","i","p","t",".","e","x","e">>
    >>

\* the list literal of line 123
office_children ==
    <<
      <<"w","i","n","w","o","r","d",".","e","x","e">>,
      <<"e","x","c","e","l",".","e","x","e">>,
      <<"p","o","w","e","r","p","n","t",".","e","x","e">>,
      <<"o","u","t","l","o","o","k",".","e","x","e">>
    >>

\* the list literal of line 168
path_sentinels ==
    <<
      <<>>,
      <<"N","/","A">>,
      <<"N","o","n","e">>
    >>

-----------------------------------------------------------------------------
(* difflib.SequenceMatcher(None, a, b).ratio(): no junk, and autojunk only *)
(* acts on sequences of 200 or more elements.  Positions are 0-based and   *)
(* windows half-open, as in difflib.                                       *)

RECURSIVE MatchRun(_, _, _, _, _, _)
\* the length of the longest common run starting at a[i], b[j] inside the window
MatchRun(a, b, i, j, ahi, bhi) ==
    IF i < ahi /\ j < bhi /\ a[i + 1] = b[j + 1]
    THEN 1 + MatchRun(a, b, i + 1, j + 1, ahi, bhi)
    ELSE 0

\* find_longest_match: the longest block; of those, the one starting earliest
\* in a; of those, the one starting earliest in b; (alo, blo, 0) if none
find_longest_match(a, b, alo, ahi, blo, bhi) ==
    LET starts == (alo..(ahi - 1)) \X (blo..(bhi - 1))
        size == [p \in starts |-> MatchRun(a, b, p[1], p[2], ahi, bhi)]
        best == CHOOSE p \in starts :
                    \A q \in starts :
                        \/ size[q] < size[p]
                        \/ /\ size[q] = size[p]
                           /\ \/ p[1] < q[1]
                              \/ p[1] = q[1] /\ p[2] <= q[2]
    IN  IF starts = {} \/ size[best] = 0
        THEN [i |-> alo, j |-> blo, k |-> 0]
        ELSE [i |-> best[1], j |-> best[2], k |-> size[best]]

RECURSIVE matching_count(_, _, _, _, _, _)
\* get_matching_blocks, summed: the block, then the windows left and right of it
matching_count(a, b, alo, ahi, blo, bhi) ==
    LET m == find_longest_match(a, b, alo, ahi, blo, bhi)
    IN  IF m.k = 0
        THEN 0
        ELSE m.k
             + (IF alo < m.i /\ blo < m.j
                THEN matching_count(a, b, alo, m.i, blo, m.j) ELSE 0)
             + (IF m.i + m.k < ahi /\ m.j + m.k < bhi
                THEN matching_count(a, b, m.i + m.k, ahi, m.j + m.k, bhi) ELSE 0)

\* ratio() is 2.0 * matches / (len(a) + len(b)); kept as the pair of integers
Matches(a, b) == matching_count(a, b, 0, Len(a), 0, Len(b))

-----------------------------------------------------------------------------
(* The inputs: the names and paths the records of a dump are drawn from.   *)

\* names outside the common set: svch0st.exe, csss.exe, taskhostw.exe, notepad.exe,
\* winword.exe, cmd.exe, wuauclt.exe, onedrive.exe, OneDrive.exe, Svchost.exe, LSASS.EXE and ''
ExtraNames ==
    {
      <<"s","v","c","h","0","s","t",".","e","x","e">>,
      <<"c","s","s","s",".","e","x","e">>,
      <<"t","a","s","k","h","o","s","t","w",".","e","x","e">>,
      <<"n","o","t","e","p","a","d",".","e","x","e">>,
      <<"w","i","n","w","o","r","d",".","e","x","e">>,
      <<"c","m","d",".","e","x","e">>,
      <<"w","u","a","u","c","l","t",".","e","x","e">>,
      <<"o","n","e","d","r","i","v","e",".","e","x","e">>,
      <<"O","n","e","D","r","i","v","e",".","e","x","e">>,
      <<"S","v","c","h","o","s","t",".","e","x","e">>,
      <<"L","S","A","S","S",".","E","X","E">>,
      <<>>
    }

InputNames == common_names \cup ExtraNames

\* ''
\* N/A
\* None
\* C:\Windows\System32\x.exe
\* C:\Windows\explorer.exe
\* C:\Users\Public\x.exe
\* C:\Windows\Temp\x.exe
\* C:\Temp\\x.exe
\* C:\Users\a\AppData\Local\Temp\x.exe
\* C:\ProgramData\x.exe
\* C:\ProgramData\C:\Windows\System32\x.exe
\* \??\C:\Windows\System32\x.exe
\* C:\Program Files\x.exe
\* c:\windows\system32\x.exe
\* the paths above, in that order of writing
InputPaths ==
    {
      <<>>,
      <<"N","/","A">>,
      <<"N","o","n","e">>,
      <<"C",":","\\","W","i","n","d","o","w","s","\\","S","y","s","t","e","m","3","2","\\","x",".","e","x","e">>,
      <<"C",":","\\","W","i","n","d","o","w","s","\\","e","x","p","l","o","r","e","r",".","e","x","e">>,
      <<"C",":","\\","U","s","e","r","s","\\","P","u","b","l","i","c","\\","x",".","e","x","e">>,
      <<"C",":","\\","W","i","n","d","o","w","s","\\","T","e","m","p","\\","x",".","e","x","e">>,
      <<"C",":","\\","T","e","m","p","\\","\\","x",".","e","x","e">>,
      <<"C",":","\\","U","s","e","r","s","\\","a","\\","A","p","p","D","a","t","a","\\","L","o","c","a","l","\\","T","e","m","p","\\","x",".","e","x","e">>,
      <<"C",":","\\","P","r","o","g","r","a","m","D","a","t","a","\\","x",".","e","x","e">>,
      <<"C",":","\\","P","r","o","g","r","a","m","D","a","t","a","\\","C",":","\\","W","i","n","d","o","w","s","\\","S","y","s","t","e","m","3","2","\\","x",".","e","x","e">>,
      <<"\\","?","?","\\","C",":","\\","W","i","n","d","o","w","s","\\","S","y","s","t","e","m","3","2","\\","x",".","e","x","e">>,
      <<"C",":","\\","P","r","o","g","r","a","m"," ","F","i","l","e","s","\\","x",".","e","x","e">>,
      <<"c",":","\\","w","i","n","d","o","w","s","\\","s","y","s","t","e","m","3","2","\\","x",".","e","x","e">>
    }

\* a record of the process table; a dict key the record lacks reads as ''
\* (name, path, create_time, exit_time), None (ppid) or False (the flags)
Proc(pid, ppid, name, path) ==
    [pid |-> pid, ppid |-> ppid, name |-> name, path |-> path,
     create_time |-> <<>>, exit_time |-> <<>>,
     is_suspicious |-> FALSE, is_hidden |-> FALSE]

\* the records whole dumps are built from: pid, ppid, name, path
DumpRecords ==
    {
      \* 1, None, explorer.exe, C:\Windows\explorer.exe
      Proc(1, <<>>,
           <<"e","x","p","l","o","r","e","r",".","e","x","e">>,
           <<"C",":","\\","W","i","n","d","o","w","s","\\","e","x","p","l","o","r","e","r",".","e","x","e">>),
      \* 1, None, services.exe, C:\Windows\System32\x.exe
      Proc(1, <<>>,
           <<"s","e","r","v","i","c","e","s",".","e","x","e">>,
           <<"C",":","\\","W","i","n","d","o","w","s","\\","S","y","s","t","e","m","3","2","\\","x",".","e","x","e">>),
      \* 2, 1, svchost.exe, C:\Windows\System32\x.exe
      Proc(2, <<1>>,
           <<"s","v","c","h","o","s","t",".","e","x","e">>,
           <<"C",":","\\","W","i","n","d","o","w","s","\\","S","y","s","t","e","m","3","2","\\","x",".","e","x","e">>),
      \* 3, 4, taskhostw.exe, C:\Users\Public\x.exe
      Proc(3, <<4>>,
           <<"t","a","s","k","h","o","s","t","w",".","e","x","e">>,
           <<"C",":","\\","U","s","e","r","s","\\","P","u","b","l","i","c","\\","x",".","e","x","e">>),
      \* 4, None, lsass.exe, C:\Windows\System32\x.exe
      Proc(4, <<>>,
           <<"l","s","a","s","s",".","e","x","e">>,
           <<"C",":","\\","W","i","n","d","o","w","s","\\","S","y","s","t","e","m","3","2","\\","x",".","e","x","e">>),
      \* 5, 1, LSASS.EXE, C:\Users\Public\x.exe
      Proc(5, <<1>>,
           <<"L","S","A","S","S",".","E","X","E">>,
           <<"C",":","\\","U","s","e","r","s","\\","P","u","b","l","i","c","\\","x",".","e","x","e">>),
      \* 6, None, winlogon.exe, ''
      Proc(6, <<>>,
           <<"w","i","n","l","o","g","o","n",".","e","x","e">>,
           <<>>),
      \* 7, 6, winlogon.exe, N/A
      Proc(7, <<6>>,
           <<"w","i","n","l","o","g","o","n",".","e","x","e">>,
           <<"N","/","A">>),
      \* 2, 8, winword.exe, C:\ProgramData\x.exe
      Proc(2, <<8>>,
           <<"w","i","n","w","o","r","d",".","e","x","e">>,
           <<"C",":","\\","P","r","o","g","r","a","m","D","a","t","a","\\","x",".","e","x","e">>),
      \* 8, 1, cmd.exe, ''
      Proc(8, <<1>>,
           <<"c","m","d",".","e","x","e">>,
           <<>>),
      \* 3, 9, svch0st.exe, N/A
      Proc(3, <<9>>,
           <<"s","v","c","h","0","s","t",".","e","x","e">>,
           <<"N","/","A">>),
      \* 9, 0, csss.exe, C:\Program Files\x.exe
      Proc(9, <<0>>,
           <<"c","s","s","s",".","e","x","e">>,
           <<"C",":","\\","P","r","o","g","r","a","m"," ","F","i","l","e","s","\\","x",".","e","x","e">>)
    }

\* the names of the parent in a dump of one parent and one child:
\* explorer.exe, services.exe, svchost.exe, cmd.exe, Explorer.EXE
ParentNames ==
    {
      <<"e","x","p","l","o","r","e","r",".","e","x","e">>,
      <<"s","e","r","v","i","c","e","s",".","e","x","e">>,
      <<"s","v","c","h","o","s","t",".","e","x","e">>,
      <<"c","m","d",".","e","x","e">>,
      <<"E","x","p","l","o","r","e","r",".","E","X","E">>
    }

\* the parent's pid and the child's ppid: no ppid, a ppid that resolves,
\* ppid 0 with a record of pid 0, and a ppid no record has
Links == {<<1, <<>>>>, <<1, <<1>>>>, <<0, <<0>>>>, <<1, <<9>>>>}

\* a dump of one parent and one child (pid 5)
PairDumps ==
    {<<Proc(l[1], <<>>, pn, <<>>), Proc(5, l[2], n, p)>> :
        l \in Links, pn \in ParentNames, n \in InputNames, p \in InputPaths}

\* two records of pid 0 around a child of ppid 0 (pid 5): svchost.exe or
\* winword.exe
ZeroPidDumps ==
    {<<Proc(0, <<>>, a, <<>>), Proc(5, <<0>>, n, <<>>), Proc(0, <<>>, b, <<>>)>> :
        a \in ParentNames, b \in ParentNames,
        n \in {<<"s","v","c","h","o","s","t",".","e","x","e">>,
               <<"w","i","n","w","o","r","d",".","e","x","e">>}}

\* the longest dump built from DumpRecords
MaxProcs == 3

RECURSIVE DumpsOfLength(_)
DumpsOfLength(n) ==
    IF n = 0
    THEN {<<>>}
    ELSE {Append(d, r) : d \in DumpsOfLength(n - 1), r \in DumpRecords}

ListDumps == UNION {DumpsOfLength(n) : n \in 0..MaxProcs}

\* the record of DumpRecords with a pid only one of them has
RecordOf(pid) == CHOOSE r \in DumpRecords : r.pid = pid

\* dumps with two instances of each of two single-instance names:
\* lsass.exe (4), LSASS.EXE (5), winlogon.exe (6, 7), in two orders
TwoPairDumps ==
    {<<RecordOf(4), RecordOf(5), RecordOf(6), RecordOf(7)>>,
     <<RecordOf(7), RecordOf(4), RecordOf(6), RecordOf(5)>>}

Reverse(s) == [k \in 1..Len(s) |-> s[Len(s) + 1 - k]]

\* the iteration order of a set of str follows the interpreter's hash seed:
\* the orders considered are the literal's order and its reverse
SetOrders == {[common |-> common_names_literal,
               single |-> single_instance_literal],
              [common |-> Reverse(common_names_literal),
               single |-> Reverse(single_instance_literal)]}

-----------------------------------------------------------------------------
(* memoized over the inputs: the values of Lower, Matches and the path     *)
(* tests do not depend on the state                                        *)

AllNames ==
    InputNames \cup ParentNames \cup {r.name : r \in DumpRecords}

LowerTable == [n \in AllNames |-> Lower(n)]

\* name.lower(), memoized
lower(name) == LowerTable[name]

LowerNames == {lower(n) : n \in AllNames}

MatchesTable == [a \in LowerNames |-> [c \in common_names |-> Matches(a, c)]]

Similarity(a, c) == MatchesTable[a][c]

\* any(legit_path in proc_path for legit_path in self.legitimate_paths)
is_legitimate(proc_path) ==
    \E k \in 1..Len(legitimate_paths) : Contains(proc_path, legitimate_paths[k])

\* the loop of lines 186-187: some suspicious_path is in proc_path
in_suspicious_path(proc_path) ==
    \E k \in 1..Len(suspicious_paths) : Contains(proc_path, suspicious_paths[k])

LegitimateTable == [p \in InputPaths |-> is_legitimate(p)]

SuspiciousTable == [p \in InputPaths |-> in_suspicious_path(p)]

PathLegitimate(p) == LegitimateTable[p]

PathSuspicious(p) == SuspiciousTable[p]

-----------------------------------------------------------------------------
(* AnomalyDetector: the rules.  A rule returns <<>> (None) or <<finding>>. *)

\* proc_map = {p['pid']: p for p in processes}: a later record replaces an
\* earlier one with the same pid
proc_map_of(procs) ==
    LET pids == {procs[k].pid : k \in 1..Len(procs)}
        last(pid) == CHOOSE k \in 1..Len(procs) :
                        /\ procs[k].pid = pid
                        /\ \A m \in 1..Len(procs) : procs[m].pid = pid => m <= k
    IN  [pid \in pids |-> procs[last(pid)]]

\* the entries of expected_parents, in iteration order, that list proc_name
\* as a child and name another parent than parent_name
MismatchedEntries(proc_name, parent_name) ==
    SelectSeq(expected_parents,
              LAMBDA e : proc_name \in e.children /\ parent_name # e.parent)

_check_parent_anomaly(proc, proc_map) ==
    LET proc_name == lower(proc.name)
        ppid == proc.ppid
    IN  \* not ppid: None or 0
        IF ppid = <<>> \/ ppid[1] = 0 \/ ppid[1] \notin DOMAIN proc_map
        THEN <<>>
        ELSE LET parent == proc_map[ppid[1]]
                 parent_name == lower(parent.name)
                 mismatched == MismatchedEntries(proc_name, parent_name)
             IN  IF mismatched # <<>>
                 THEN <<[type |-> "unexpected_parent",
                         severity |-> "high",
                         pid |-> proc.pid,
                         process |-> proc_name,
                         parent_pid |-> ppid[1],
                         parent_name |-> parent_name,
                         expected_parent |-> mismatched[1].parent]>>
                 ELSE IF InList(parent_name, shell_parents)
                         /\ InList(proc_name, office_children)
                 THEN <<[type |-> "suspicious_parent_child",
                         severity |-> "critical",
                         pid |-> proc.pid,
                         process |-> proc_name,
                         parent_pid |-> ppid[1],
                         parent_name |-> parent_name]>>
                 ELSE <<>>

\* similarity > 0.85 for similarity = 2.0 * m / (len(a) + len(b)): no pair of
\* names has a ratio of exactly 17/20 within one rounding of the double 0.85
AboveThreshold(m, total) == 200 * m > 85 * total

\* round(similarity, 3), in thousandths
Rounded3(m, total) == (4000 * m + total) \div (2 * total)

\* _check_misspelled_name without the two tests that skip the name itself
_check_misspelled_name_no_skip(proc, order) ==
    LET proc_name == lower(proc.name)
        hits == SelectSeq(order,
                    LAMBDA common :
                        AboveThreshold(Similarity(proc_name, common),
                                       Len(proc_name) + Len(common)))
    IN  IF proc_name = <<>>
        THEN <<>>
        ELSE IF hits # <<>>
        THEN <<[type |-> "misspelled_name",
                severity |-> "high",
                pid |-> proc.pid,
                process |-> proc_name,
                similar_to |-> hits[1],
                similarity |-> Rounded3(Similarity(proc_name, hits[1]),
                                        Len(proc_name) + Len(hits[1]))]>>
        ELSE <<>>

_check_misspelled_name(proc, order) ==
    LET proc_name == lower(proc.name)
        \* the common names, in iteration order, that pass both tests of the loop
        hits == SelectSeq(order,
                    LAMBDA common :
                        /\ proc_name # common
                        /\ AboveThreshold(Similarity(proc_name, common),
                                          Len(proc_name) + Len(common)))
    IN  IF proc_name = <<>>
        THEN <<>>
        ELSE IF hits # <<>>
        THEN <<[type |-> "misspelled_name",
                severity |-> "high",
                pid |-> proc.pid,
                process |-> proc_name,
                similar_to |-> hits[1],
                similarity |-> Rounded3(Similarity(proc_name, hits[1]),
                                        Len(proc_name) + Len(hits[1]))]>>
        ELSE <<>>

_check_unusual_path(proc) ==
    LET proc_path == proc.path
        proc_name == lower(proc.name)
    IN  IF proc_path = <<>> \/ InList(proc_path, path_sentinels)
        THEN <<>>
        ELSE IF proc_name \in common_names /\ ~PathLegitimate(proc_path)
        THEN <<[type |-> "unusual_path",
                severity |-> "critical",
                pid |-> proc.pid,
                process |-> proc_name,
                path |-> proc_path]>>
        ELSE IF PathSuspicious(proc_path)
        THEN <<[type |-> "suspicious_path",
                severity |-> "medium",
                pid |-> proc.pid,
                process |-> proc_name,
                path |-> proc_path]>>
        ELSE <<>>

\* _check_duplicate_instances grouping by the name as stored, not lowercased
_check_duplicate_instances_raw(procs, order) ==
    LET process_counts(name) == SelectSeq(procs, LAMBDA p : p.name = name)
        duplicated == SelectSeq(order, LAMBDA name : Len(process_counts(name)) > 1)
        pids(name) == [k \in 1..Len(process_counts(name)) |-> process_counts(name)[k].pid]
    IN  [k \in 1..Len(duplicated) |->
            [type |-> "duplicate_instance",
             severity |-> "high",
             process |-> duplicated[k],
             count |-> Len(pids(duplicated[k])),
             pids |-> pids(duplicated[k])]]

_check_duplicate_instances(procs, order) ==
    LET \* process_counts[name]: the records of that lowercase name, in list order
        process_counts(name) == SelectSeq(procs, LAMBDA p : lower(p.name) = name)
        duplicated == SelectSeq(order, LAMBDA name : Len(process_counts(name)) > 1)
        pids(name) == [k \in 1..Len(process_counts(name)) |-> process_counts(name)[k].pid]
    IN  [k \in 1..Len(duplicated) |->
            [type |-> "duplicate_instance",
             severity |-> "high",
             process |-> duplicated[k],
             count |-> Len(pids(duplicated[k])),
             pids |-> pids(duplicated[k])]]

\* per_process with the name check run before the parent check
per_process_name_first(proc, proc_map, order) ==
    _check_misspelled_name(proc, order)
        \o _check_parent_anomaly(proc, proc_map)
        \o _check_unusual_path(proc)

\* the three per-process checks of one loop iteration, in the order of the body
per_process(proc, proc_map, order) ==
    _check_parent_anomaly(proc, proc_map)
        \o _check_misspelled_name(proc, order)
        \o _check_unusual_path(proc)

RECURSIVE per_process_loop_seen(_, _, _, _)
\* the loop with the process map built while iterating: a parent resolves
\* only when its record came earlier in the list
per_process_loop_seen(procs, proc_map, order, k) ==
    IF k > Len(procs)
    THEN <<>>
    ELSE per_process(procs[k], proc_map_of(SubSeq(procs, 1, k)), order)
            \o per_process_loop_seen(procs, proc_map, order, k + 1)

RECURSIVE per_process_loop(_, _, _, _)
per_process_loop(procs, proc_map, order, k) ==
    IF k > Len(procs)
    THEN <<>>
    ELSE per_process(procs[k], proc_map, order)
            \o per_process_loop(procs, proc_map, order, k + 1)

\* detect_anomalies after the fetch: the loop, then the duplicate scan
detect(procs, corder, sorder) ==
    per_process_loop(procs, proc_map_of(procs), corder, 1)
        \o _check_duplicate_instances(procs, sorder)


-----------------------------------------------------------------------------
(* datetime.strptime for the four formats of _parse_timestamp, as          *)
(* _strptime builds it: the format becomes a regular expression (a         *)
(* directive is an alternation tried in order, a blank is \s+, any other   *)
(* character is itself, case ignored), re.match finds the first match, and *)
(* text left after the match or a field out of range is a ValueError.      *)

Digits == <<"0","1","2","3","4","5","6","7","8","9">>

IsDigit(c) == \E k \in 1..10 : Digits[k] = c

DigitValue(c) == (CHOOSE k \in 1..10 : Digits[k] = c) - 1

\* str.isspace for the characters of the inputs
IsSpace(c) == c \in {" ", "\t", "\n", "\r"}

\* positions are 1-based; pos = Len(s) + 1 is the end
DigitsAt(s, pos, n) ==
    /\ pos + n - 1 <= Len(s)
    /\ \A k \in 0..(n - 1) : IsDigit(s[pos + k])

RECURSIVE NumberAt(_, _, _)
\* int() of the n digits at pos
NumberAt(s, pos, n) ==
    IF n = 0 THEN 0
    ELSE 10 * NumberAt(s, pos, n - 1) + DigitValue(s[pos + n - 1])

\* the ways a directive can match at pos, in the order the regular
\* expression tries them: <<value, next position>>
\*   Y  \d\d\d\d                          m  1[0-2]|0[1-9]|[1-9]
\*   d  3[0-1]|[1-2]\d|0[1-9]|[1-9]| [1-9]   H  2[0-3]|[0-1]\d|\d
\*   M  [0-5]\d|\d                        S  6[0-1]|[0-5]\d|\d
\*   f  [0-9]{1,6}, read as a fraction of a second in microseconds
TwoThenOne(s, pos, lo2, hi2, lo1) ==
    (IF DigitsAt(s, pos, 2) /\ NumberAt(s, pos, 2) \in lo2..hi2
     THEN <<[value |-> NumberAt(s, pos, 2), next |-> pos + 2]>> ELSE <<>>)
    \o
    (IF DigitsAt(s, pos, 1) /\ NumberAt(s, pos, 1) \in lo1..9
     THEN <<[value |-> NumberAt(s, pos, 1), next |-> pos + 1]>> ELSE <<>>)

RECURSIVE Power10(_)
Power10(n) == IF n = 0 THEN 1 ELSE 10 * Power10(n - 1)

RECURSIVE FractionWays(_, _, _)
\* the longest run of digits first, then the shorter ones
FractionWays(s, pos, n) ==
    IF n = 0 THEN <<>>
    ELSE (IF DigitsAt(s, pos, n)
          THEN <<[value |-> NumberAt(s, pos, n) * Power10(6 - n), next |-> pos + n]>>
          ELSE <<>>)
         \o FractionWays(s, pos, n - 1)

DirectiveWays(d, s, pos) ==
    CASE d = "Y" -> IF DigitsAt(s, pos, 4)
                    THEN <<[value |-> NumberAt(s, pos, 4), next |-> pos + 4]>>
                    ELSE <<>>
      [] d = "m" -> TwoThenOne(s, pos, 1, 12, 1)
      [] d = "d" -> TwoThenOne(s, pos, 1, 31, 1)
                    \o (IF pos + 1 <= Len(s) /\ s[pos] = " "
                           /\ DigitsAt(s, pos + 1, 1) /\ NumberAt(s, pos + 1, 1) >= 1
                        THEN <<[value |-> NumberAt(s, pos + 1, 1), next |-> pos + 2]>>
                        ELSE <<>>)
      [] d = "H" -> TwoThenOne(s, pos, 0, 23, 0)
      [] d = "M" -> TwoThenOne(s, pos, 0, 59, 0)
      [] d = "S" -> TwoThenOne(s, pos, 0, 61, 0)
      [] d = "f" -> FractionWays(s, pos, 6)

RECURSIVE SpaceRun(_, _)
\* the number of whitespace characters from pos on
SpaceRun(s, pos) ==
    IF pos <= Len(s) /\ IsSpace(s[pos]) THEN 1 + SpaceRun(s, pos + 1) ELSE 0

\* \s+ : the longest run first, then the shorter ones
RECURSIVE SpaceWays(_, _)
SpaceWays(pos, n) ==
    IF n = 0 THEN <<>>
    ELSE <<[value |-> 0, next |-> pos + n]>> \o SpaceWays(pos, n - 1)

\* a format is a sequence of [dir |-> directive] and [lit |-> character]
IsDirective(tok) == "dir" \in DOMAIN tok

TokenWays(tok, s, pos) ==
    IF IsDirective(tok)
    THEN DirectiveWays(tok.dir, s, pos)
    ELSE IF tok.lit = " "
    THEN SpaceWays(pos, SpaceRun(s, pos))
    ELSE IF pos <= Len(s) /\ LowerChar(s[pos]) = LowerChar(tok.lit)
    THEN <<[value |-> 0, next |-> pos + 1]>>
    ELSE <<>>

NoFields == [Y |-> 0, m |-> 0, d |-> 0, H |-> 0, M |-> 0, S |-> 0, f |-> 0]

SetField(tok, got, value) ==
    IF IsDirective(tok) THEN [got EXCEPT ![tok.dir] = value] ELSE got

RECURSIVE ReMatch(_, _, _, _, _)
RECURSIVE ReFirst(_, _, _, _, _, _)
RECURSIVE ReBacktrack(_, _, _, _, _, _, _)
\* re.match from token k at pos: <<>> or <<[fields, end]>>, the first match in
\* the order of the alternatives, backtracking when the rest does not match
ReMatch(fmt, k, s, pos, got) ==
    IF k > Len(fmt)
    THEN <<[fields |-> got, end |-> pos]>>
    ELSE ReFirst(fmt, k, s, got, TokenWays(fmt[k], s, pos), 1)

ReFirst(fmt, k, s, got, ways, w) ==
    IF w > Len(ways)
    THEN <<>>
    ELSE ReBacktrack(ReMatch(fmt, k + 1, s, ways[w].next,
                             SetField(fmt[k], got, ways[w].value)),
                     fmt, k, s, got, ways, w)

\* the match of the rest, or the next alternative when the rest did not match
ReBacktrack(rest, fmt, k, s, got, ways, w) ==
    IF rest # <<>> THEN rest ELSE ReFirst(fmt, k, s, got, ways, w + 1)

IsLeap(year) == year % 4 = 0 /\ (year % 100 # 0 \/ year % 400 = 0)

DaysInMonth(year, month) ==
    IF month = 2 THEN (IF IsLeap(year) THEN 29 ELSE 28)
    ELSE IF month \in {4, 6, 9, 11} THEN 30
    ELSE 31

\* the checks of the datetime constructor
ValidDateTime(f) ==
    /\ f.Y \in 1..9999
    /\ f.m \in 1..12
    /\ f.d \in 1..DaysInMonth(f.Y, f.m)
    /\ f.H \in 0..23
    /\ f.M \in 0..59
    /\ f.S \in 0..59
    /\ f.f \in 0..999999

\* a datetime: tzinfo is <<>> (naive) or <<utcoffset in seconds>>
DateTime(f, tz) ==
    [year |-> f.Y, month |-> f.m, day |-> f.d, hour |-> f.H, minute |-> f.M,
     second |-> f.S, microsecond |-> f.f, tzinfo |-> tz]

\* the outcome of a call: a value, or an exception of a class
Returned(v) == [raised |-> "", value |-> <<v>>]

Raised(class) == [raised |-> class, value |-> <<>>]

\* what strptime makes of the match
Converted(found, s) ==
    IF found = <<>>
    THEN Raised("ValueError")          \* does not match format
    ELSE IF found[1].end # Len(s) + 1
    THEN Raised("ValueError")          \* unconverted data remains
    ELSE IF ~ValidDateTime(found[1].fields)
    THEN Raised("ValueError")          \* field out of range
    ELSE Returned(DateTime(found[1].fields, <<>>))

strptime(s, fmt) == Converted(ReMatch(fmt, 1, s, 1, NoFields), s)

Dir(d) == [dir |-> d]

Lit(c) == [lit |-> c]

DateTokens == <<Dir("Y"), Lit("-"), Dir("m"), Lit("-"), Dir("d")>>

TimeTokens == <<Dir("H"), Lit(":"), Dir("M"), Lit(":"), Dir("S")>>

\* the list formats of _parse_timestamp:
\* '%Y-%m-%d %H:%M:%S', '%Y-%m-%d %H:%M:%S.%f',
\* '%Y-%m-%dT%H:%M:%S', '%Y-%m-%dT%H:%M:%S.%f'
formats ==
    <<DateTokens \o <<Lit(" ")>> \o TimeTokens,
      DateTokens \o <<Lit(" ")>> \o TimeTokens \o <<Lit("."), Dir("f")>>,
      DateTokens \o <<Lit("T")>> \o TimeTokens,
      DateTokens \o <<Lit("T")>> \o TimeTokens \o <<Lit("."), Dir("f")>>>>

(* datetime.fromisoformat, for the strings every supported interpreter     *)
(* reads alike: YYYY-MM-DD[*HH[:MM[:SS[.fff[fff]]]][+HH:MM[:SS]]]           *)

RECURSIVE ParseHhMmSs(_, _, _, _)
\* _parse_hh_mm_ss_ff up to the fraction: <<>> (ValueError) or
\* <<[comps, next]>>; comp counts the components read so far
ParseHhMmSs(t, pos, comp, comps) ==
    IF ~DigitsAt(t, pos, 2)
    THEN <<>>
    ELSE LET comps2 == [comps EXCEPT ![comp + 1] = NumberAt(t, pos, 2)]
         IN  IF pos + 2 > Len(t) \/ comp >= 2
             THEN <<[comps |-> comps2, next |-> pos + 2]>>
             ELSE IF t[pos + 2] # ":"
             THEN <<>>
             ELSE ParseHhMmSs(t, pos + 3, comp + 1, comps2)

\* the fraction after the components read by ParseHhMmSs
WithFraction(head, t) ==
    IF head = <<>>
    THEN <<>>
    ELSE LET pos == head[1].next
             rest == Len(t) - pos
         IN  IF pos > Len(t)
             THEN <<head[1].comps \o <<0>>>>
             ELSE IF t[pos] # "." \/ rest \notin {3, 6} \/ ~DigitsAt(t, pos + 1, rest)
             THEN <<>>
             ELSE <<head[1].comps
                    \o <<NumberAt(t, pos + 1, rest) * Power10(6 - rest)>>>>

\* _parse_hh_mm_ss_ff: <<>> or <<<<hour, minute, second, microsecond>>>>
ParseHhMmSsFf(t) == WithFraction(ParseHhMmSs(t, 1, 0, <<0, 0, 0>>), t)

\* the position of the sign that starts the offset, or 0:
\* tstr.find('-') + 1 or tstr.find('+') + 1
SignPosition(t) ==
    LET first(c) == IF \E k \in 1..Len(t) : t[k] = c
                    THEN CHOOSE k \in 1..Len(t) :
                            t[k] = c /\ \A m \in 1..(k - 1) : t[m] # c
                    ELSE 0
    IN  IF first("-") # 0 THEN first("-") ELSE first("+")

\* the datetime of the date, the time and the offset that were read
IsoDateTime(s, time, tz, aware, negative) ==
    IF time = <<>> \/ tz = <<>>
    THEN Raised("ValueError")
    ELSE LET f == [Y |-> NumberAt(s, 1, 4), m |-> NumberAt(s, 6, 2),
                   d |-> NumberAt(s, 9, 2), H |-> time[1][1],
                   M |-> time[1][2], S |-> time[1][3], f |-> time[1][4]]
             offset == (tz[1][1] * 3600 + tz[1][2] * 60 + tz[1][3])
                           * (IF negative THEN -1 ELSE 1)
         IN  IF ~ValidDateTime(f) \/ offset >= 86400 \/ offset <= -86400
             THEN Raised("ValueError")
             ELSE Returned(DateTime(f, IF aware THEN <<offset>> ELSE <<>>))

\* the time string splits at the sign into the time and the offset
IsoTime(s, tstr, sign) ==
    IsoDateTime(s,
                IF tstr = <<>> THEN <<<<0, 0, 0, 0>>>>
                ELSE ParseHhMmSsFf(IF sign > 0 THEN SubSeq(tstr, 1, sign - 1) ELSE tstr),
                IF sign = 0 THEN <<<<0, 0, 0, 0>>>>
                ELSE IF Len(tstr) - sign \notin {5, 8} THEN <<>>
                ELSE ParseHhMmSsFf(SubSeq(tstr, sign + 1, Len(tstr))),
                sign > 0,
                sign > 0 /\ tstr[sign] = "-")

fromisoformat(s) ==
    IF Len(s) < 10
       \/ ~DigitsAt(s, 1, 4) \/ s[5] # "-" \/ ~DigitsAt(s, 6, 2)
       \/ s[8] # "-" \/ ~DigitsAt(s, 9, 2)
    THEN Raised("ValueError")
    ELSE IsoTime(s, SubSeq(s, 12, Len(s)), SignPosition(SubSeq(s, 12, Len(s))))

-----------------------------------------------------------------------------
(* TimelineGenerator._parse_timestamp *)

\* str.strip()
RECURSIVE LStrip(_)
LStrip(s) == IF s # <<>> /\ IsSpace(Head(s)) THEN LStrip(Tail(s)) ELSE s

RECURSIVE RStrip(_)
RStrip(s) ==
    IF s # <<>> /\ IsSpace(s[Len(s)]) THEN RStrip(SubSeq(s, 1, Len(s) - 1)) ELSE s

Strip(s) == RStrip(LStrip(s))

\* the list ['N/A', 'None', ''] of line 119
timestamp_sentinels == <<<<"N","/","A">>, <<"N","o","n","e">>, <<>>>>

\* the exception classes an except clause catches: `except ValueError`
\* catches ValueError, a bare `except:` catches every class
Catches(clause, class) == clause = "" \/ clause = class

RECURSIVE try_formats(_, _, _)
RECURSIVE after_strptime(_, _, _, _)
\* the loop over formats: the first format that parses returns; a ValueError
\* goes on to the next format, any other exception leaves the loop raised
try_formats(ts, k, clause) ==
    IF k > Len(formats)
    THEN Raised("exhausted")
    ELSE after_strptime(strptime(ts, formats[k]), ts, k, clause)

\* `return datetime.strptime(ts, fmt)` / `except ValueError: continue`
after_strptime(r, ts, k, clause) ==
    IF r.raised = "" THEN r
    ELSE IF Catches(clause, r.raised) THEN try_formats(ts, k + 1, clause)
    ELSE r

\* the loop with a clause that catches TypeError instead of ValueError
after_formats_uncaught(fixed) ==
    IF fixed.raised = "" THEN Returned(fixed.value)
    ELSE IF fixed.raised # "exhausted" THEN fixed
    ELSE Returned(<<>>)

\* _parse_timestamp with a loop that catches TypeError instead of ValueError
_parse_timestamp_uncaught(timestamp_str) ==
    IF timestamp_str = <<>> \/ InList(timestamp_str, timestamp_sentinels)
    THEN Returned(<<>>)
    ELSE after_formats_uncaught(try_formats(Strip(timestamp_str), 1, "TypeError"))

\* `return datetime.fromisoformat(ts)` / `except: pass` / `return None`
after_fromisoformat(iso) ==
    IF iso.raised = "" THEN Returned(iso.value)
    ELSE IF Catches("", iso.raised) THEN Returned(<<>>)
    ELSE iso

\* what follows the loop over formats
after_formats(fixed, ts) ==
    IF fixed.raised = "" THEN Returned(fixed.value)
    ELSE IF fixed.raised # "exhausted" THEN fixed
    ELSE after_fromisoformat(fromisoformat(ts))

\* the outcome is Returned(<<>>) for None, Returned(<<datetime>>), or Raised
_parse_timestamp(timestamp_str) ==
    IF timestamp_str = <<>> \/ InList(timestamp_str, timestamp_sentinels)
    THEN Returned(<<>>)
    ELSE after_formats(try_formats(Strip(timestamp_str), 1, "ValueError"),
                       Strip(timestamp_str))

-----------------------------------------------------------------------------
(* The order of datetime values: naive values compare by their fields,      *)
(* aware values by their instant in UTC, and comparing a naive value with   *)
(* an aware one raises TypeError.                                           *)

DaysBeforeYear(year) ==
    (year - 1) * 365 + (year - 1) \div 4 - (year - 1) \div 100 + (year - 1) \div 400

RECURSIVE DaysBeforeMonth(_, _)
DaysBeforeMonth(year, month) ==
    IF month = 1 THEN 0
    ELSE DaysBeforeMonth(year, month - 1) + DaysInMonth(year, month - 1)

IsAware(dt) == dt.tzinfo # <<>>

\* <<day, second of the day, microsecond>>, in UTC for an aware value
SortKey(dt) ==
    LET day == DaysBeforeYear(dt.year) + DaysBeforeMonth(dt.year, dt.month) + dt.day
        sec == dt.hour * 3600 + dt.minute * 60 + dt.second
                  - (IF IsAware(dt) THEN dt.tzinfo[1] ELSE 0)
    IN  <<day + sec \div 86400, sec % 86400, dt.microsecond>>

KeyBefore(ka, kb) ==
    \/ ka[1] < kb[1]
    \/ ka[1] = kb[1] /\ ka[2] < kb[2]
    \/ ka[1] = kb[1] /\ ka[2] = kb[2] /\ ka[3] < kb[3]

\* a < b, for values that are both naive or both aware
Before(a, b) == KeyBefore(SortKey(a), SortKey(b))

-----------------------------------------------------------------------------
(* The inputs of the timeline *)

\* name, create_time, exit_time, is_suspicious, is_hidden
TimedProc(pid, name, create_time, exit_time, is_suspicious, is_hidden) ==
    [Proc(pid, <<>>, name, <<>>) EXCEPT !.create_time = create_time,
                                        !.exit_time = exit_time,
                                        !.is_suspicious = is_suspicious,
                                        !.is_hidden = is_hidden]

\* the strings a create_time or exit_time holds; '' also stands for None
InputTimes ==
    {
      \* '2024-01-01 10:00:00'
      <<"2","0","2","4","-","0","1","-","0","1"," ","1","0",":","0","0",":","0","0">>,
      \* '2024-01-01 09:00:00'
      <<"2","0","2","4","-","0","1","-","0","1"," ","0","9",":","0","0",":","0","0">>,
      \* '2024-01-01T09:00:00'
      <<"2","0","2","4","-","0","1","-","0","1","T","0","9",":","0","0",":","0","0">>,
      \* '2024-01-01 09:00:00.5'
      <<"2","0","2","4","-","0","1","-","0","1"," ","0","9",":","0","0",":","0","0",".","5">>,
      \* ''
      <<>>,
      \* 'N/A'
      <<"N","/","A">>,
      \* 'None'
      <<"N","o","n","e">>,
      \* '   '
      <<" "," "," ">>,
      \* 'yesterday'
      <<"y","e","s","t","e","r","d","a","y">>,
      \* '2024-01-01T09:00:00+00:00'
      <<"2","0","2","4","-","0","1","-","0","1","T","0","9",":","0","0",":","0","0","+","0","0",":","0","0">>,
      \* '2024-01-01'
      <<"2","0","2","4","-","0","1","-","0","1">>,
      \* ' 2024-01-01 10:00:00 '
      <<" ","2","0","2","4","-","0","1","-","0","1"," ","1","0",":","0","0",":","0","0"," ">>,
      \* '2024-02-30 10:00:00'
      <<"2","0","2","4","-","0","2","-","3","0"," ","1","0",":","0","0",":","0","0">>,
      \* '2024-1-1 9:00:00'
      <<"2","0","2","4","-","1","-","1"," ","9",":","0","0",":","0","0">>,
      \* '2024-01-01T10:00:00+01:00'
      <<"2","0","2","4","-","0","1","-","0","1","T","1","0",":","0","0",":","0","0","+","0","1",":","0","0">>,
      \* '01/01/2024 10:00'
      <<"0","1","/","0","1","/","2","0","2","4"," ","1","0",":","0","0">>,
      \* '2024-01-01T08:00:00-01:00'
      <<"2","0","2","4","-","0","1","-","0","1","T","0","8",":","0","0",":","0","0","-","0","1",":","0","0">>,
      \* '2024-01-01 09:00:60'
      <<"2","0","2","4","-","0","1","-","0","1"," ","0","9",":","0","0",":","6","0">>,
      \* 'none'
      <<"n","o","n","e">>,
      \* '2023-12-31 23:59:59.999999'
      <<"2","0","2","3","-","1","2","-","3","1"," ","2","3",":","5","9",":","5","9",".","9","9","9","9","9","9">>
    }

\* the records whole timed dumps are built from
TimedRecords ==
    {
      \* 1, explorer.exe, '2024-01-01 10:00:00', ''
      TimedProc(1, <<"e","x","p","l","o","r","e","r",".","e","x","e">>,
                <<"2","0","2","4","-","0","1","-","0","1"," ","1","0",":","0","0",":","0","0">>,
                <<>>,
                FALSE, FALSE),
      \* 2, cmd.exe, '2024-01-01 09:00:00', '2024-01-01 10:00:00'
      TimedProc(2, <<"c","m","d",".","e","x","e">>,
                <<"2","0","2","4","-","0","1","-","0","1"," ","0","9",":","0","0",":","0","0">>,
                <<"2","0","2","4","-","0","1","-","0","1"," ","1","0",":","0","0",":","0","0">>,
                TRUE, FALSE),
      \* 3, svch0st.exe, '2024-01-01T09:00:00', '2024-01-01T09:00:00'
      TimedProc(3, <<"s","v","c","h","0","s","t",".","e","x","e">>,
                <<"2","0","2","4","-","0","1","-","0","1","T","0","9",":","0","0",":","0","0">>,
                <<"2","0","2","4","-","0","1","-","0","1","T","0","9",":","0","0",":","0","0">>,
                TRUE, TRUE),
      \* 4, notepad.exe, 'N/A', '2024-01-01 09:00:00.5'
      TimedProc(4, <<"n","o","t","e","p","a","d",".","e","x","e">>,
                <<"N","/","A">>,
                <<"2","0","2","4","-","0","1","-","0","1"," ","0","9",":","0","0",":","0","0",".","5">>,
                FALSE, TRUE),
      \* 5, winword.exe, '2024-01-01T10:00:00+01:00', 'None'
      TimedProc(5, <<"w","i","n","w","o","r","d",".","e","x","e">>,
                <<"2","0","2","4","-","0","1","-","0","1","T","1","0",":","0","0",":","0","0","+","0","1",":","0","0">>,
                <<"N","o","n","e">>,
                TRUE, FALSE),
      \* 6, lsass.exe, '2024-01-01T09:00:00+00:00', '2024-01-01T08:00:00-01:00'
      TimedProc(6, <<"l","s","a","s","s",".","e","x","e">>,
                <<"2","0","2","4","-","0","1","-","0","1","T","0","9",":","0","0",":","0","0","+","0","0",":","0","0">>,
                <<"2","0","2","4","-","0","1","-","0","1","T","0","8",":","0","0",":","0","0","-","0","1",":","0","0">>,
                FALSE, FALSE),
      \* 7, csss.exe, 'yesterday', '2024-02-30 10:00:00'
      TimedProc(7, <<"c","s","s","s",".","e","x","e">>,
                <<"y","e","s","t","e","r","d","a","y">>,
                <<"2","0","2","4","-","0","2","-","3","0"," ","1","0",":","0","0",":","0","0">>,
                TRUE, FALSE),
      \* 8, services.exe, '2024-01-01', ' 2024-01-01 10:00:00 '
      TimedProc(8, <<"s","e","r","v","i","c","e","s",".","e","x","e">>,
                <<"2","0","2","4","-","0","1","-","0","1">>,
                <<" ","2","0","2","4","-","0","1","-","0","1"," ","1","0",":","0","0",":","0","0"," ">>,
                FALSE, FALSE)
    }

\* one record with every pair of strings, suspicious or not
SingleTimedDumps ==
    {<<TimedProc(5, <<"a",".","e","x","e">>, c, e, s, FALSE)>> :
        c \in InputTimes, e \in InputTimes, s \in BOOLEAN}

RECURSIVE TimedDumpsOfLength(_)
TimedDumpsOfLength(n) ==
    IF n = 0
    THEN {<<>>}
    ELSE {Append(d, r) : d \in TimedDumpsOfLength(n - 1), r \in TimedRecords}

TimedDumps == UNION {TimedDumpsOfLength(n) : n \in 0..MaxProcs}

\* include_types: <<>> is None, <<list>> is a list of event types
IncludeTypes ==
    {<<>>, <<<<>>>>, <<<<"process_created">>>>, <<<<"process_exited">>>>,
     <<<<"process_created", "process_exited">>>>, <<<<"network_connection">>>>}

-----------------------------------------------------------------------------
(* TimelineGenerator.generate_timeline *)

ParseTable == [s \in InputTimes |-> _parse_timestamp(s)]

\* _parse_timestamp on the strings of the inputs
parse(s) == ParseTable[s]

\* the list ['', 'N/A', 'None'] of line 82
exit_sentinels == <<<<>>, <<"N","/","A">>, <<"N","o","n","e">>>>

\* the flags of a created event: HIDDEN, then SUSPICIOUS
flags_of(proc) ==
    (IF proc.is_hidden THEN <<"HIDDEN">> ELSE <<>>)
    \o (IF proc.is_suspicious THEN <<"SUSPICIOUS">> ELSE <<>>)

\* the description is kept as its parts: "Process <name> (PID <pid>) <verb>"
\* and the flags in brackets
TimelineEvent(timestamp, event_type, verb, flags, proc) ==
    [timestamp |-> timestamp, event_type |-> event_type,
     description |-> [name |-> proc.name, pid |-> proc.pid,
                      verb |-> verb, flags |-> flags],
     source |-> "process", pid |-> proc.pid, process_name |-> proc.name,
     details |-> proc, is_suspicious |-> proc.is_suspicious]

\* the event of a parsed timestamp: none for None, the exception when the
\* parse raised
event_of(t, event_type, verb, flags, proc) ==
    IF t.raised # "" THEN t
    ELSE IF t.value[1] = <<>> THEN Returned(<<>>)
    ELSE Returned(<<TimelineEvent(t.value[1][1], event_type, verb, flags, proc)>>)

\* the events of one field: none when the guard fails
field_events(proc, guard, raw, event_type, verb, flags) ==
    IF ~guard
    THEN Returned(<<>>)
    ELSE event_of(parse(raw), event_type, verb, flags, proc)

created_events(proc) ==
    field_events(proc, proc.create_time # <<>>, proc.create_time,
                 "process_created", "created", flags_of(proc))

exited_events(proc) ==
    field_events(proc,
                 proc.exit_time # <<>> /\ ~InList(proc.exit_time, exit_sentinels),
                 proc.exit_time, "process_exited", "exited", <<>>)

\* the events so far and the events that follow, or the first exception
appended(front, more) ==
    IF front.raised # "" THEN front
    ELSE IF more.raised # "" THEN more
    ELSE Returned(front.value[1] \o more.value[1])

\* the body of the loop with the filter on created events only
record_events_exits_kept(proc, only) ==
    appended(IF only /\ ~proc.is_suspicious THEN Returned(<<>>)
             ELSE created_events(proc),
             exited_events(proc))

\* the exit of a record looked at only when its creation gave an event
exited_after_created(created, proc) ==
    IF created.raised = "" /\ created.value[1] = <<>>
    THEN created
    ELSE appended(created, exited_events(proc))

\* the body of the loop with the exit block nested in the creation block
record_events_exit_nested(proc, only) ==
    IF only /\ ~proc.is_suspicious
    THEN Returned(<<>>)
    ELSE exited_after_created(created_events(proc), proc)

\* the body of the loop over the records: the events one record appends
record_events(proc, only) ==
    IF only /\ ~proc.is_suspicious
    THEN Returned(<<>>)
    ELSE appended(created_events(proc), exited_events(proc))

RECURSIVE emitted(_, _)
\* the list events at the end of the loop, or the exception that ended it
emitted(procs, only) ==
    IF procs = <<>>
    THEN Returned(<<>>)
    ELSE appended(emitted(SubSeq(procs, 1, Len(procs) - 1), only),
                  record_events(procs[Len(procs)], only))

\* x goes before the first event that is later than x
InsertAfterEquals(sorted, x) ==
    LET later == {k \in 1..Len(sorted) : Before(x.timestamp, sorted[k].timestamp)}
        at == IF later = {} THEN Len(sorted) + 1
              ELSE CHOOSE k \in later : \A m \in later : k <= m
    IN  SubSeq(sorted, 1, at - 1) \o <<x>> \o SubSeq(sorted, at, Len(sorted))

\* x goes before the first event that is not earlier than x
InsertBeforeEquals(sorted, x) ==
    LET notearlier == {k \in 1..Len(sorted) : ~Before(sorted[k].timestamp, x.timestamp)}
        at == IF notearlier = {} THEN Len(sorted) + 1
              ELSE CHOOSE k \in notearlier : \A m \in notearlier : k <= m
    IN  SubSeq(sorted, 1, at - 1) \o <<x>> \o SubSeq(sorted, at, Len(sorted))

RECURSIVE sorted_unstable(_)
\* a sort that puts a later event before the earlier ones of its timestamp
sorted_unstable(evs) ==
    IF evs = <<>> THEN <<>>
    ELSE InsertBeforeEquals(sorted_unstable(SubSeq(evs, 1, Len(evs) - 1)), evs[Len(evs)])

RECURSIVE sorted_by_timestamp(_)
\* list.sort is stable: events of one timestamp keep their order
sorted_by_timestamp(evs) ==
    IF evs = <<>> THEN <<>>
    ELSE InsertAfterEquals(sorted_by_timestamp(SubSeq(evs, 1, Len(evs) - 1)), evs[Len(evs)])

\* events.sort(key=lambda e: e.timestamp): the comparison of a naive
\* timestamp with an aware one raises TypeError
sort_events(evs) ==
    IF \E i, j \in 1..Len(evs) : ~IsAware(evs[i].timestamp) /\ IsAware(evs[j].timestamp)
    THEN Raised("TypeError")
    ELSE Returned(sorted_by_timestamp(evs))

\* `if include_types:` is false for None and for an empty list
filtered(evs, types) ==
    IF types # <<>> /\ types[1] # <<>>
    THEN SelectSeq(evs, LAMBDA e : InList(e.event_type, types[1]))
    ELSE evs

\* the filter on the sorted list
after_sort(ordered, types) ==
    IF ordered.raised # "" THEN ordered
    ELSE Returned(filtered(ordered.value[1], types))

\* the sort of the emitted list
after_loop(found, types) ==
    IF found.raised # "" THEN found
    ELSE after_sort(sort_events(found.value[1]), types)

generate_timeline(procs, types, only) == after_loop(emitted(procs, only), types)

-----------------------------------------------------------------------------
(* AnomalyDetector.get_anomaly_report.  The report is the sequence of its   *)
(* lines; a description is kept as its parts: the f-string that built it,   *)
(* the texts and the numbers put into it.                                   *)

\* anomaly['description']
description_of(a) ==
    CASE a.type = "unexpected_parent" ->
            [form |-> a.type, numbers |-> <<a.pid>>,
             texts |-> <<a.process, a.parent_name, a.expected_parent>>]
      [] a.type = "suspicious_parent_child" ->
            [form |-> a.type, numbers |-> <<>>,
             texts |-> <<a.process, a.parent_name>>]
      [] a.type = "misspelled_name" ->
            [form |-> a.type, numbers |-> <<a.pid>>,
             texts |-> <<a.process, a.similar_to>>]
      [] a.type \in {"unusual_path", "suspicious_path"} ->
            [form |-> a.type, numbers |-> <<a.pid>>,
             texts |-> <<a.process, a.path>>]
      [] a.type = "duplicate_instance" ->
            [form |-> a.type, numbers |-> a.pids,
             texts |-> <<a.process>>]

\* one line of the report: its kind, the tier it names, the count it prints
\* and the description it lists
Line(kind, tier, count, item) ==
    [kind |-> kind, tier |-> tier, count |-> count, item |-> item]

\* [a for a in anomalies if a.get('severity') == tier]
of_severity(found, tier) == SelectSeq(found, LAMBDA a : a.severity = tier)

\* "- {anomaly['description']}" for each finding of the list
items(found) ==
    [k \in 1..Len(found) |-> Line("item", "", 0, <<description_of(found[k])>>)]

\* the section of a tier with its header also when the tier is empty
section_unconditional(found, tier, blank) ==
    <<Line("header", tier, 0, <<>>)>>
        \o items(of_severity(found, tier))
        \o (IF blank THEN <<Line("blank", "", 0, <<>>)>> ELSE <<>>)

\* the section of a tier: nothing when the tier is empty; a blank line ends
\* the critical and the high section
section(found, tier, blank) ==
    IF of_severity(found, tier) = <<>>
    THEN <<>>
    ELSE <<Line("header", tier, 0, <<>>)>>
            \o items(of_severity(found, tier))
            \o (IF blank THEN <<Line("blank", "", 0, <<>>)>> ELSE <<>>)

\* the text get_anomaly_report builds from the list detect_anomalies returned
render(found) ==
    IF found = <<>>
    THEN <<Line("title", "", 0, <<>>), Line("blank", "", 0, <<>>),
           Line("no_anomalies", "", 0, <<>>)>>
    ELSE <<Line("title", "", 0, <<>>), Line("blank", "", 0, <<>>),
           Line("total", "", Len(found), <<>>),
           Line("count", "critical", Len(of_severity(found, "critical")), <<>>),
           Line("count", "high", Len(of_severity(found, "high")), <<>>),
           Line("count", "medium", Len(of_severity(found, "medium")), <<>>),
           Line("blank", "", 0, <<>>)>>
            \o section(found, "critical", TRUE)
            \o section(found, "high", TRUE)
            \o section(found, "medium", FALSE)

N_cmd == <<"c","m","d",".","e","x","e">>

N_winword == <<"w","i","n","w","o","r","d",".","e","x","e">>

-----------------------------------------------------------------------------
(* The state machine *)

\* the dump ids of the store
DumpIds == {"a", "b"}

\* the calls that may be in progress together
RunIds == {1, 2}

\* a call not made yet
IdleRun ==
    [pc |-> "idle", op |-> "", dump_id |-> "", only |-> FALSE,
     result |-> <<>>, raised |-> ""]

\* the local variables of a call before it assigns them
EmptyFrame == [anomalies |-> <<>>, events |-> <<>>, processes |-> <<>>]

\* a store without dumps
NoDumps == [d \in DumpIds |-> <<>>]

\* the state before any call: nothing fetched, nothing returned
Idle ==
    /\ dpc = "idle"
    /\ processes = <<>>
    /\ anomalies = <<>>
    /\ draised = ""
    /\ rpc = "idle"
    /\ reported = <<>>
    /\ report = <<>>
    /\ rraised = ""
    /\ tpc = "idle"
    /\ include_types = <<>>
    /\ suspicious_only = FALSE
    /\ events = <<>>
    /\ raised = ""
    /\ runs = [r \in RunIds |-> IdleRun]
    /\ frames = [f \in RunIds |-> EmptyFrame]
    /\ schedule = <<>>

Init ==
    /\ dumps = NoDumps
    /\ \E o \in SetOrders :
          /\ common_order = o.common
          /\ single_order = o.single
    /\ store \in PairDumps \cup ListDumps \cup TwoPairDumps \cup ZeroPidDumps
    /\ store_error = ""
    /\ Idle

\* await self.db.get_processes(dump_id): the list of the dump, or the
\* exception of a store that is unavailable
get_processes ==
    IF store_error = "" THEN Returned(store) ELSE Raised(store_error)

\* detect_anomalies with a handler around the fetch, which answers a failure
\* of the store with an empty list
detect_anomalies_caught(fetched, corder, sorder) ==
    IF fetched.raised # ""
    THEN Returned(<<>>)
    ELSE Returned(detect(fetched.value[1], corder, sorder))

\* detect_anomalies from the await on: no handler surrounds the await, so the
\* exception of the fetch leaves the coroutine
detect_anomalies(fetched, corder, sorder) ==
    IF fetched.raised # ""
    THEN Raised(fetched.raised)
    ELSE Returned(detect(fetched.value[1], corder, sorder))

\* detect_anomalies up to the await of db.get_processes
DetectCall ==
    /\ dpc = "idle"
    /\ dpc' = "awaiting"
    /\ anomalies' = <<>>
    /\ draised' = ""
    /\ UNCHANGED <<engine_vars, run_vars, processes, report_vars, timeline_vars>>

\* get_processes returns and detect_anomalies runs to its return, or
\* get_processes raises and the exception leaves detect_anomalies
DetectReturn ==
    /\ dpc = "awaiting"
    /\ processes' = IF store_error = "" THEN store ELSE processes
    /\ \E found \in {detect_anomalies(get_processes, common_order, single_order)} :
          IF found.raised = ""
          THEN dpc' = "done" /\ anomalies' = found.value[1] /\ draised' = ""
          ELSE dpc' = "raised" /\ anomalies' = <<>> /\ draised' = found.raised
    /\ UNCHANGED <<engine_vars, run_vars, report_vars, timeline_vars>>

Next == DetectCall \/ DetectReturn

Spec == Init /\ [][Next]_vars

\* get_anomaly_report up to the await of db.get_processes in the
\* detect_anomalies it calls
ReportCall ==
    /\ rpc = "idle"
    /\ rpc' = "awaiting"
    /\ reported' = <<>>
    /\ report' = <<>>
    /\ rraised' = ""
    /\ UNCHANGED <<engine_vars, run_vars, processes, detect_vars, timeline_vars>>

\* get_processes returns, detect_anomalies returns its list and the report is
\* built from it; or get_processes raises and the exception leaves
\* detect_anomalies and get_anomaly_report
ReportReturn ==
    /\ rpc = "awaiting"
    /\ processes' = IF store_error = "" THEN store ELSE processes
    /\ \E found \in {detect_anomalies(get_processes, common_order, single_order)} :
          IF found.raised = ""
          THEN /\ rpc' = "done"
               /\ reported' = found.value[1]
               /\ report' = render(found.value[1])
               /\ rraised' = ""
          ELSE /\ rpc' = "raised"
               /\ reported' = <<>>
               /\ report' = <<>>
               /\ rraised' = found.raised
    /\ UNCHANGED <<engine_vars, run_vars, detect_vars, timeline_vars>>

NextReport == ReportCall \/ ReportReturn

SpecReport == Init /\ [][NextReport]_vars

\* the timeline is generated from a timed dump; the detector stays idle
InitTimeline ==
    /\ dumps = NoDumps
    /\ common_order = common_names_literal
    /\ single_order = single_instance_literal
    /\ store \in SingleTimedDumps \cup TimedDumps
    /\ store_error = ""
    /\ Idle

\* generate_timeline from the await on: no handler surrounds the await, so
\* the exception of the fetch leaves the coroutine
timeline_of(fetched, types, only) ==
    IF fetched.raised # ""
    THEN Raised(fetched.raised)
    ELSE generate_timeline(fetched.value[1], types, only)

\* generate_timeline(dump_id, include_types, suspicious_only) up to the await
\* of db.get_processes
TimelineCall ==
    /\ tpc = "idle"
    /\ tpc' = "awaiting"
    /\ include_types' \in IncludeTypes
    /\ suspicious_only' \in BOOLEAN
    /\ events' = <<>>
    /\ raised' = ""
    /\ UNCHANGED <<engine_vars, run_vars, processes, detect_vars, report_vars>>

\* get_processes returns and generate_timeline runs to its return or to the
\* exception that ends it, or get_processes raises and the exception leaves
\* generate_timeline
TimelineReturn ==
    /\ tpc = "awaiting"
    /\ processes' = IF store_error = "" THEN store ELSE processes
    /\ \E outcome \in {timeline_of(get_processes, include_types, suspicious_only)} :
          IF outcome.raised = ""
          THEN tpc' = "done" /\ events' = outcome.value[1] /\ raised' = ""
          ELSE tpc' = "raised" /\ events' = <<>> /\ raised' = outcome.raised
    /\ UNCHANGED <<engine_vars, run_vars, detect_vars, report_vars,
                   include_types, suspicious_only>>

NextTimeline == TimelineCall \/ TimelineReturn

SpecTimeline == InitTimeline /\ [][NextTimeline]_vars

\* the dumps of the runs in which the store may be unavailable
FetchDumps ==
    {d \in TimedDumps : Len(d) <= 1}
        \cup {d \in PairDumps : d[2].name \in {N_cmd, N_winword} /\ d[2].path = <<>>}

\* the exception of a store that is unavailable
StoreErrors == {"", "ConnectionError"}

\* every operation, over a store that answers or raises
InitFetch ==
    /\ dumps = NoDumps
    /\ common_order = common_names_literal
    /\ single_order = single_instance_literal
    /\ store \in FetchDumps
    /\ store_error \in StoreErrors
    /\ Idle

NextFetch ==
    \/ DetectCall
    \/ DetectReturn
    \/ ReportCall
    \/ ReportReturn
    \/ TimelineCall
    \/ TimelineReturn

SpecFetch == InitFetch /\ [][NextFetch]_vars

-----------------------------------------------------------------------------
(* Several calls on one detector and one generator.  A call is a coroutine  *)
(* with a frame of its own; it is suspended once, at the await of           *)
(* db.get_processes, where any other call may run.                          *)

\* the longest dump of a store with two dumps
MaxRunProcs == 2

\* dump "a" is built from the timed records of pids 2, 3, 6 and dump "b" from
\* those of pids 7, 8
RunRecords(d) ==
    {p \in TimedRecords : p.pid \in (IF d = "a" THEN {2, 3, 6} ELSE {7, 8})}

RECURSIVE RunDumpsOfLength(_, _)
RunDumpsOfLength(d, n) ==
    IF n = 0
    THEN {<<>>}
    ELSE {Append(l, r) : l \in RunDumpsOfLength(d, n - 1), r \in RunRecords(d)}

RunDumps(d) == UNION {RunDumpsOfLength(d, n) : n \in 0..MaxRunProcs}

\* await self.db.get_processes(dump_id) for one of several dumps
get_processes_of(d) ==
    IF store_error = "" THEN Returned(dumps[d]) ELSE Raised(store_error)

\* one frame for every call on the instance, as if the lists were attributes
\* of self
frame_shared(r) == 1

\* the frame that holds the local variables of call r: each call of a
\* coroutine function makes its own
frame(r) == r

\* the loops pop the fields they have read
after_reads_popped(procs) ==
    [k \in 1..Len(procs) |->
        [procs[k] EXCEPT !.create_time = <<>>, !.exit_time = <<>>]]

\* the records after a run: the loops and the rules read them through
\* proc.get(...) and proc[...] and assign to none of them
after_reads(procs) == procs

\* detect_anomalies from the await on, appending to the list `anomalies`
\* names since the call
detect_from(found, fetched, corder, sorder) ==
    IF fetched.raised # ""
    THEN Raised(fetched.raised)
    ELSE Returned(found \o detect(fetched.value[1], corder, sorder))

\* the list `events` names after the loop: the list of the call with the
\* events of the loop appended
extended(evs, found) ==
    IF found.raised # "" THEN found ELSE Returned(evs \o found.value[1])

\* generate_timeline from the await on, appending to the list `events` names
\* since the call
timeline_from(evs, fetched, types, only) ==
    IF fetched.raised # ""
    THEN Raised(fetched.raised)
    ELSE after_loop(extended(evs, emitted(fetched.value[1], only)), types)

\* call r ends with the outcome
ended_run(run, outcome) ==
    IF outcome.raised = ""
    THEN [run EXCEPT !.pc = "done", !.result = outcome.value[1]]
    ELSE [run EXCEPT !.pc = "raised", !.raised = outcome.raised]

\* the store after call r fetched: the records it was handed, as the run
\* left them
fetched_by(r, fetched) ==
    IF fetched.raised # ""
    THEN dumps
    ELSE [dumps EXCEPT ![runs[r].dump_id] = after_reads(fetched.value[1])]

\* call r of detect_anomalies(d) up to the await: anomalies = []
DetectRunCall(r, d) ==
    /\ runs[r].pc = "idle"
    /\ runs' = [runs EXCEPT ![r] = [IdleRun EXCEPT !.pc = "awaiting",
                                                   !.op = "detect_anomalies",
                                                   !.dump_id = d]]
    /\ frames' = [frames EXCEPT ![frame(r)].anomalies = <<>>]
    /\ schedule' = Append(schedule, <<r, "call">>)
    /\ UNCHANGED <<engine_vars, dumps, processes, detect_vars, report_vars,
                   timeline_vars>>

\* call r of detect_anomalies from the await to its return
DetectRunReturn(r) ==
    /\ runs[r].pc = "awaiting"
    /\ runs[r].op = "detect_anomalies"
    /\ \E fetched \in {get_processes_of(runs[r].dump_id)} :
          /\ dumps' = fetched_by(r, fetched)
          /\ \E found \in {detect_from(frames[frame(r)].anomalies, fetched,
                                       common_order, single_order)} :
                /\ runs' = [runs EXCEPT ![r] = ended_run(@, found)]
                /\ frames' = [frames EXCEPT ![frame(r)] =
                                 IF found.raised = ""
                                 THEN [@ EXCEPT !.processes = fetched.value[1],
                                                !.anomalies = found.value[1]]
                                 ELSE @]
    /\ schedule' = Append(schedule, <<r, "return">>)
    /\ UNCHANGED <<engine_vars, processes, detect_vars, report_vars,
                   timeline_vars>>

\* call r of generate_timeline(d, suspicious_only=only) up to the await:
\* events = []
TimelineRunCall(r, d, only) ==
    /\ runs[r].pc = "idle"
    /\ runs' = [runs EXCEPT ![r] = [IdleRun EXCEPT !.pc = "awaiting",
                                                   !.op = "generate_timeline",
                                                   !.dump_id = d,
                                                   !.only = only]]
    /\ frames' = [frames EXCEPT ![frame(r)].events = <<>>]
    /\ schedule' = Append(schedule, <<r, "call">>)
    /\ UNCHANGED <<engine_vars, dumps, processes, detect_vars, report_vars,
                   timeline_vars>>

\* call r of generate_timeline from the await to its return or to the
\* exception that ends it
TimelineRunReturn(r) ==
    /\ runs[r].pc = "awaiting"
    /\ runs[r].op = "generate_timeline"
    /\ \E fetched \in {get_processes_of(runs[r].dump_id)} :
          /\ dumps' = fetched_by(r, fetched)
          /\ \E outcome \in {timeline_from(frames[frame(r)].events, fetched,
                                           <<>>, runs[r].only)} :
                /\ runs' = [runs EXCEPT ![r] = ended_run(@, outcome)]
                /\ frames' = [frames EXCEPT ![frame(r)] =
                                 IF outcome.raised = ""
                                 THEN [@ EXCEPT !.processes = fetched.value[1],
                                                !.events = outcome.value[1]]
                                 ELSE @]
    /\ schedule' = Append(schedule, <<r, "return">>)
    /\ UNCHANGED <<engine_vars, processes, detect_vars, report_vars,
                   timeline_vars>>

\* one detector and one generator over a store of two dumps
InitRuns ==
    /\ common_order = common_names_literal
    /\ single_order = single_instance_literal
    /\ store = <<>>
    /\ store_error = ""
    /\ dumps \in [DumpIds -> RunDumps("a") \cup RunDumps("b")]
    /\ \A d \in DumpIds : dumps[d] \in RunDumps(d)
    /\ Idle

NextRuns ==
    \E r \in RunIds :
        \/ \E d \in DumpIds : DetectRunCall(r, d)
        \/ DetectRunReturn(r)
        \/ \E d \in DumpIds, only \in BOOLEAN : TimelineRunCall(r, d, only)
        \/ TimelineRunReturn(r)

SpecRuns == InitRuns /\ [][NextRuns]_vars

-----------------------------------------------------------------------------
(* Vocabulary of the properties *)

Done == dpc = "done"

UniquePids(procs) ==
    \A i, j \in 1..Len(procs) : procs[i].pid = procs[j].pid => i = j

\* the position of the record with this pid, in a list of unique pids
PositionOf(procs, pid) == CHOOSE i \in 1..Len(procs) : procs[i].pid = pid

ParentTypes == {"unexpected_parent", "suspicious_parent_child"}

PathTypes == {"unusual_path", "suspicious_path"}

PerProcessTypes == ParentTypes \cup {"misspelled_name"} \cup PathTypes

\* the place of a per-process finding in the rule order of the loop body
RuleRank(type) ==
    IF type \in ParentTypes THEN 1
    ELSE IF type = "misspelled_name" THEN 2
    ELSE 3

\* the findings of the given types about the process with this pid
FindingsOf(found, types, pid) ==
    SelectSeq(found, LAMBDA f : f.type \in types /\ f.pid = pid)

-----------------------------------------------------------------------------
\* C1: the findings come in process order, then rule order (parent, name,
\* path) within a process, and every duplicate_instance finding comes after
\* all per-process findings.  Findings name their process by pid, so the
\* order is stated for dumps whose pids are unique.
C1_FindingOrder ==
    (Done /\ UniquePids(processes)) =>
        \A a, b \in 1..Len(anomalies) :
            a < b =>
                /\ anomalies[a].type = "duplicate_instance"
                      => anomalies[b].type = "duplicate_instance"
                /\ (anomalies[a].type \in PerProcessTypes
                    /\ anomalies[b].type \in PerProcessTypes) =>
                      LET i == PositionOf(processes, anomalies[a].pid)
                          j == PositionOf(processes, anomalies[b].pid)
                      IN  \/ i < j
                          \/ /\ i = j
                             /\ RuleRank(anomalies[a].type)
                                    < RuleRank(anomalies[b].type)

\* a dump of unique pids whose findings are: all three rules for one process,
\* then a finding for a later process, then a duplicate_instance
C1_Witness ==
    /\ Done
    /\ UniquePids(processes)
    /\ Len(anomalies) >= 5
    /\ anomalies[1].type = "unexpected_parent"
    /\ anomalies[2].type = "misspelled_name"
    /\ anomalies[3].type = "suspicious_path"
    /\ anomalies[1].pid = anomalies[3].pid
    /\ anomalies[4].type \in PerProcessTypes
    /\ anomalies[4].pid # anomalies[3].pid
    /\ anomalies[Len(anomalies)].type = "duplicate_instance"

-----------------------------------------------------------------------------
\* the six names of the single-instance rule: csrss.exe, smss.exe,
\* wininit.exe, services.exe, lsass.exe, winlogon.exe
C2_Names ==
    {<<"c","s","r","s","s",".","e","x","e">>,
     <<"s","m","s","s",".","e","x","e">>,
     <<"w","i","n","i","n","i","t",".","e","x","e">>,
     <<"s","e","r","v","i","c","e","s",".","e","x","e">>,
     <<"l","s","a","s","s",".","e","x","e">>,
     <<"w","i","n","l","o","g","o","n",".","e","x","e">>}

\* the records of a dump with this lowercase name, in list order
RecordsNamed(procs, name) == SelectSeq(procs, LAMBDA p : lower(p.name) = name)

DuplicateFindings(found, name) ==
    SelectSeq(found, LAMBDA f : f.type = "duplicate_instance" /\ f.process = name)

\* C2: a name of the six with N > 1 records gets exactly one
\* duplicate_instance finding, of severity high, with count N and the N pids
\* in list order; any other name, and a name with N <= 1, gets none.
C2_SingleInstance ==
    Done =>
        \A name \in C2_Names \cup {lower(processes[k].name) : k \in 1..Len(processes)} :
            LET recs == RecordsNamed(processes, name)
                dups == DuplicateFindings(anomalies, name)
            IN  IF name \in C2_Names /\ Len(recs) > 1
                THEN /\ Len(dups) = 1
                     /\ dups[1].severity = "high"
                     /\ dups[1].count = Len(recs)
                     /\ dups[1].pids = [k \in 1..Len(recs) |-> recs[k].pid]
                ELSE dups = <<>>

\* two records of one single-instance name, spelled in different case, the
\* larger pid first, with their finding
C2_Witness ==
    /\ Done
    /\ \E k \in 1..Len(anomalies) :
          /\ anomalies[k].type = "duplicate_instance"
          /\ anomalies[k].count = 2
          /\ anomalies[k].pids[1] > anomalies[k].pids[2]
          /\ \E i, j \in 1..Len(processes) :
                /\ processes[i].name # processes[j].name
                /\ lower(processes[i].name) = anomalies[k].process
                /\ lower(processes[j].name) = anomalies[k].process

-----------------------------------------------------------------------------
\* the ppid is an integer and some record of the dump has it as its pid
Resolves(procs, proc) ==
    /\ proc.ppid # <<>>
    /\ \E k \in 1..Len(procs) : procs[k].pid = proc.ppid[1]

\* the lowercase name of the record the ppid resolves to
ResolvedParentName(procs, proc) == lower(proc_map_of(procs)[proc.ppid[1]].name)

\* the names written as a child in some entry of the expected-parent table
ListedChildren == UNION {expected_parents[k].children : k \in 1..Len(expected_parents)}

N_svchost == <<"s","v","c","h","o","s","t",".","e","x","e">>
N_services == <<"s","e","r","v","i","c","e","s",".","e","x","e">>

\* C3: svchost.exe under a resolved parent other than services.exe yields
\* exactly one unexpected_parent finding, of severity high, that expects
\* services.exe; under services.exe it yields none; and a name listed as a
\* child nowhere in the table never yields unexpected_parent.
C3_ParentLineage ==
    (Done /\ UniquePids(processes)) =>
        \A i \in 1..Len(processes) :
            LET proc == processes[i]
                found == FindingsOf(anomalies, {"unexpected_parent"}, proc.pid)
            IN  /\ (lower(proc.name) = N_svchost /\ Resolves(processes, proc)) =>
                      IF ResolvedParentName(processes, proc) # N_services
                      THEN /\ Len(found) = 1
                           /\ found[1].severity = "high"
                           /\ found[1].expected_parent = N_services
                      ELSE found = <<>>
                /\ lower(proc.name) \notin ListedChildren => found = <<>>

\* C3, for the ppids the code resolves (an integer other than 0): this part
\* of the claim holds of the code
C3_HoldsForNonZeroPpid ==
    (Done /\ UniquePids(processes)) =>
        \A i \in 1..Len(processes) :
            LET proc == processes[i]
                found == FindingsOf(anomalies, {"unexpected_parent"}, proc.pid)
            IN  /\ (/\ lower(proc.name) = N_svchost
                    /\ Resolves(processes, proc)
                    /\ proc.ppid[1] # 0) =>
                      IF ResolvedParentName(processes, proc) # N_services
                      THEN /\ Len(found) = 1
                           /\ found[1].severity = "high"
                           /\ found[1].expected_parent = N_services
                      ELSE found = <<>>
                /\ lower(proc.name) \notin ListedChildren => found = <<>>

\* svchost.exe under explorer.exe, flagged
C3_HoldsForNonZeroPpid_Witness ==
    /\ Done
    /\ UniquePids(processes)
    /\ \E i \in 1..Len(processes) :
          /\ lower(processes[i].name) = N_svchost
          /\ Resolves(processes, processes[i])
          /\ processes[i].ppid[1] # 0
          /\ ResolvedParentName(processes, processes[i]) # N_services
          /\ FindingsOf(anomalies, {"unexpected_parent"}, processes[i].pid) # <<>>

-----------------------------------------------------------------------------
\* cmd.exe, powershell.exe, wscript.exe, cscript.exe
C4_Shells ==
    {<<"c","m","d",".","e","x","e">>,
     <<"p","o","w","e","r","s","h","e","l","l",".","e","x","e">>,
     <<"w","s","c","r","i","p","t",".","e","x","e">>,
     <<"c","s","c","r","i","p","t",".","e","x","e">>}

\* winword.exe, excel.exe, powerpnt.exe, outlook.exe
C4_Office ==
    {<<"w","i","n","w","o","r","d",".","e","x","e">>,
     <<"e","x","c","e","l",".","e","x","e">>,
     <<"p","o","w","e","r","p","n","t",".","e","x","e">>,
     <<"o","u","t","l","o","o","k",".","e","x","e">>}

\* the condition of the suspicious-spawn rule, as the claim states it
C4_Condition(procs, proc) ==
    /\ Resolves(procs, proc)
    /\ ResolvedParentName(procs, proc) \in C4_Shells
    /\ lower(proc.name) \in C4_Office

\* C4: a process gets a suspicious_parent_child finding (one, of severity
\* critical) if and only if its ppid resolves to a shell or script host and
\* it is an office application, whatever the parent-lineage rule found.
C4_SuspiciousSpawn ==
    (Done /\ UniquePids(processes)) =>
        \A i \in 1..Len(processes) :
            LET proc == processes[i]
                found == FindingsOf(anomalies, {"suspicious_parent_child"}, proc.pid)
            IN  IF C4_Condition(processes, proc)
                THEN Len(found) = 1 /\ found[1].severity = "critical"
                ELSE found = <<>>

\* C4, for the ppids the code resolves (an integer other than 0): this part
\* of the claim holds of the code
C4_HoldsForNonZeroPpid ==
    (Done /\ UniquePids(processes)) =>
        \A i \in 1..Len(processes) :
            LET proc == processes[i]
                found == FindingsOf(anomalies, {"suspicious_parent_child"}, proc.pid)
            IN  IF C4_Condition(processes, proc) /\ proc.ppid[1] # 0
                THEN Len(found) = 1 /\ found[1].severity = "critical"
                ELSE (C4_Condition(processes, proc) \/ found = <<>>)

\* winword.exe under cmd.exe, flagged
C4_HoldsForNonZeroPpid_Witness ==
    /\ Done
    /\ UniquePids(processes)
    /\ \E i \in 1..Len(processes) :
          /\ C4_Condition(processes, processes[i])
          /\ processes[i].ppid[1] # 0
          /\ FindingsOf(anomalies, {"suspicious_parent_child"}, processes[i].pid) # <<>>

-----------------------------------------------------------------------------
N_svch0st == <<"s","v","c","h","0","s","t",".","e","x","e">>
N_notepad == <<"n","o","t","e","p","a","d",".","e","x","e">>

\* the common names other than the name whose ratio with it is above 0.85,
\* the ratio being 2 * M / (len(a) + len(b)) for M matching characters
CrossingNames(name) ==
    {c \in common_names :
        /\ c # name
        /\ 200 * Similarity(name, c) > 85 * (Len(name) + Len(c))}

\* C5: a process gets a misspelled_name finding (one, of severity high) if
\* and only if its lowercase name is not empty and some other common name has
\* a ratio above 0.85 with it, and similar_to is such a name; svch0st.exe is
\* found similar to svchost.exe, notepad.exe and the common names are not flagged.
C5_NameSimilarity ==
    (Done /\ UniquePids(processes)) =>
        \A i \in 1..Len(processes) :
            LET name == lower(processes[i].name)
                found == FindingsOf(anomalies, {"misspelled_name"}, processes[i].pid)
            IN  /\ IF name # <<>> /\ CrossingNames(name) # {}
                   THEN /\ Len(found) = 1
                        /\ found[1].severity = "high"
                        /\ found[1].process = name
                        /\ found[1].similar_to \in CrossingNames(name)
                   ELSE found = <<>>
                /\ name = N_svch0st =>
                      Len(found) = 1 /\ found[1].similar_to = N_svchost
                /\ name = N_notepad => found = <<>>
                /\ name \in common_names => found = <<>>

\* svch0st.exe flagged as similar to svchost.exe, next to a record with a
\* common name, written in capitals, that is not flagged
C5_Witness ==
    /\ Done
    /\ UniquePids(processes)
    /\ \E i, j \in 1..Len(processes) :
          /\ lower(processes[i].name) = N_svch0st
          /\ \E k \in 1..Len(anomalies) :
                /\ anomalies[k].type = "misspelled_name"
                /\ anomalies[k].pid = processes[i].pid
                /\ anomalies[k].similar_to = N_svchost
          /\ processes[j].name \notin common_names
          /\ lower(processes[j].name) \in common_names
          /\ FindingsOf(anomalies, {"misspelled_name"}, processes[j].pid) = <<>>

-----------------------------------------------------------------------------
\* the path begins with the prefix
BeginsWith(path, prefix) ==
    /\ Len(prefix) <= Len(path)
    /\ \A k \in 1..Len(prefix) : path[k] = prefix[k]

\* the path begins with one of the legitimate path prefixes
BeginsLegitimate(path) ==
    \E k \in 1..Len(legitimate_paths) : BeginsWith(path, legitimate_paths[k])

BeginsLegitimateTable == [p \in InputPaths |-> BeginsLegitimate(p)]

\* '', 'N/A', 'None'
SentinelPaths == {<<>>, <<"N","/","A">>, <<"N","o","n","e">>}

\* a legitimate path string occurs in the path, but not at its start
LegitimateElsewhere(path) == PathLegitimate(path) /\ ~BeginsLegitimateTable[path]

\* C6: for a process of a common name whose path is present and no sentinel,
\* an unusual_path finding (severity critical) is emitted if and only if the
\* path does not begin with a legitimate path prefix; a process of another
\* name never yields unusual_path.
C6_PathLegitimacy ==
    (Done /\ UniquePids(processes)) =>
        \A i \in 1..Len(processes) :
            LET proc == processes[i]
                found == FindingsOf(anomalies, {"unusual_path"}, proc.pid)
            IN  IF lower(proc.name) \in common_names
                THEN proc.path \notin SentinelPaths =>
                        IF BeginsLegitimateTable[proc.path]
                        THEN found = <<>>
                        ELSE Len(found) = 1 /\ found[1].severity = "critical"
                ELSE found = <<>>

\* C6, for the paths that hold a legitimate path string at their start or
\* not at all: this part of the claim holds of the code
C6_HoldsUnlessLegitimateElsewhere ==
    (Done /\ UniquePids(processes)) =>
        \A i \in 1..Len(processes) :
            LET proc == processes[i]
                found == FindingsOf(anomalies, {"unusual_path"}, proc.pid)
            IN  IF lower(proc.name) \in common_names
                THEN (proc.path \notin SentinelPaths
                      /\ ~LegitimateElsewhere(proc.path)) =>
                        IF BeginsLegitimateTable[proc.path]
                        THEN found = <<>>
                        ELSE Len(found) = 1 /\ found[1].severity = "critical"
                ELSE found = <<>>

\* a common-name process flagged for a path outside the legitimate prefixes
C6_HoldsUnlessLegitimateElsewhere_Witness ==
    /\ Done
    /\ UniquePids(processes)
    /\ \E i \in 1..Len(processes) :
          /\ lower(processes[i].name) \in common_names
          /\ processes[i].path \notin SentinelPaths
          /\ ~PathLegitimate(processes[i].path)
          /\ FindingsOf(anomalies, {"unusual_path"}, processes[i].pid) # <<>>

-----------------------------------------------------------------------------
\* C7: a process yields at most one finding of unusual_path and
\* suspicious_path; a common-name process whose path is outside the
\* legitimate prefixes and holds a suspicious substring yields unusual_path
\* (critical) and no suspicious_path; an absent or sentinel path yields neither.
C7_OnePathFinding ==
    (Done /\ UniquePids(processes)) =>
        \A i \in 1..Len(processes) :
            LET proc == processes[i]
                found == FindingsOf(anomalies, PathTypes, proc.pid)
            IN  /\ Len(found) <= 1
                /\ (/\ lower(proc.name) \in common_names
                    /\ proc.path \notin SentinelPaths
                    /\ ~BeginsLegitimateTable[proc.path]
                    /\ PathSuspicious(proc.path)) =>
                      /\ Len(found) = 1
                      /\ found[1].type = "unusual_path"
                      /\ found[1].severity = "critical"
                /\ proc.path \in SentinelPaths => found = <<>>

\* C7, for the paths that hold a legitimate path string at their start or
\* not at all: there the whole claim holds of the code; the bound of one
\* path finding and the skipping of sentinels hold for every path
C7_HoldsUnlessLegitimateElsewhere ==
    (Done /\ UniquePids(processes)) =>
        \A i \in 1..Len(processes) :
            LET proc == processes[i]
                found == FindingsOf(anomalies, PathTypes, proc.pid)
            IN  /\ Len(found) <= 1
                /\ (/\ lower(proc.name) \in common_names
                    /\ proc.path \notin SentinelPaths
                    /\ ~BeginsLegitimateTable[proc.path]
                    /\ ~LegitimateElsewhere(proc.path)
                    /\ PathSuspicious(proc.path)) =>
                      /\ Len(found) = 1
                      /\ found[1].type = "unusual_path"
                      /\ found[1].severity = "critical"
                /\ proc.path \in SentinelPaths => found = <<>>

\* a common-name process in a suspicious, non-legitimate path: unusual_path only
C7_HoldsUnlessLegitimateElsewhere_Witness ==
    /\ Done
    /\ UniquePids(processes)
    /\ \E i \in 1..Len(processes) :
          /\ lower(processes[i].name) \in common_names
          /\ ~PathLegitimate(processes[i].path)
          /\ PathSuspicious(processes[i].path)
          /\ Len(FindingsOf(anomalies, {"unusual_path"}, processes[i].pid)) = 1
          /\ FindingsOf(anomalies, {"suspicious_path"}, processes[i].pid) = <<>>

-----------------------------------------------------------------------------
(* Vocabulary of the timeline properties *)

TimelineDone == tpc = "done"

TimelineEnded == tpc \in {"done", "raised"}

\* the outcome of the run that ended
Outcome == IF tpc = "done" THEN Returned(events) ELSE Raised(raised)

\* the events in the order the loop appended them
Emitted == emitted(processes, suspicious_only).value[1]

SameTime(a, b) == ~Before(a.timestamp, b.timestamp) /\ ~Before(b.timestamp, a.timestamp)

\* the place of the i-th event in the ascending order that keeps events of
\* one timestamp in their order
StablePlace(evs, i) ==
    Cardinality({j \in 1..Len(evs) :
                    \/ Before(evs[j].timestamp, evs[i].timestamp)
                    \/ SameTime(evs[j], evs[i]) /\ j <= i})

StableOrder(evs) ==
    [r \in 1..Len(evs) |-> evs[CHOOSE i \in 1..Len(evs) : StablePlace(evs, i) = r]]

T_1000 == <<"2","0","2","4","-","0","1","-","0","1"," ","1","0",":","0","0",":","0","0">>

T_0900 == <<"2","0","2","4","-","0","1","-","0","1"," ","0","9",":","0","0",":","0","0">>

\* C8: the returned list is ascending by timestamp, and it is the emitted
\* list in its stable order (events of one timestamp in emission order),
\* restricted to the event types that were kept; of two records created at
\* 10:00:00 and 09:00:00, in that order, the second record's event is first.
C8_SortedStable ==
    TimelineDone =>
        /\ \A a, b \in 1..Len(events) :
              a < b => ~Before(events[b].timestamp, events[a].timestamp)
        /\ LET kept == {events[k].event_type : k \in 1..Len(events)}
           IN  events = SelectSeq(StableOrder(Emitted),
                                  LAMBDA e : e.event_type \in kept)
        /\ (/\ Len(processes) = 2
            /\ processes[1].create_time = T_1000
            /\ processes[2].create_time = T_0900
            /\ ~suspicious_only
            /\ include_types = <<>>)
           => /\ events[1].details = processes[2]
              /\ events[1].event_type = "process_created"
              /\ events[2].details = processes[1]

\* a run over the two records of the example whose sort moves an event
\* forward and meets two events of one timestamp
C8_Witness ==
    /\ TimelineDone
    /\ Len(processes) = 2
    /\ processes[1].create_time = T_1000
    /\ processes[2].create_time = T_0900
    /\ processes[2].exit_time = T_1000
    /\ ~suspicious_only
    /\ include_types = <<>>
    /\ Len(events) = 3
    /\ events # Emitted
    /\ SameTime(events[2], events[3])

\* no format reads the string: every strptime and fromisoformat raise
Unparseable(s) ==
    /\ \A k \in 1..Len(formats) : strptime(Strip(s), formats[k]).raised # ""
    /\ fromisoformat(Strip(s)).raised # ""

AbsentTable ==
    [s \in InputTimes |->
        InList(s, timestamp_sentinels) \/ Strip(s) = <<>> \/ Unparseable(s)]

\* '', 'N/A', 'None', whitespace only, or a string no format reads
Absent(s) == AbsentTable[s]

\* the string an event's timestamp was read from
RawTime(e) ==
    IF e.event_type = "process_created"
    THEN e.details.create_time
    ELSE e.details.exit_time

\* C9: _parse_timestamp returns None, without raising, for '', 'N/A', 'None',
\* a whitespace-only string and a string no format reads; no returned event
\* comes from such a string, and the loop over the records ends without an
\* exception, so a run that raises does so in the sort.
C9_AbsentNeverRaises ==
    TimelineEnded =>
        /\ \A i \in 1..Len(processes) :
              /\ Absent(processes[i].create_time)
                    => parse(processes[i].create_time) = Returned(<<>>)
              /\ Absent(processes[i].exit_time)
                    => parse(processes[i].exit_time) = Returned(<<>>)
        /\ \A k \in 1..Len(events) :
              /\ ~Absent(RawTime(events[k]))
              /\ parse(RawTime(events[k])) = Returned(<<events[k].timestamp>>)
        /\ emitted(processes, suspicious_only).raised = ""
        /\ raised # "ValueError"

\* a returned run over one record whose create_time no format reads and whose
\* exit_time gave the only event
C9_Witness ==
    /\ TimelineDone
    /\ Len(processes) = 1
    /\ processes[1].create_time # <<>>
    /\ ~InList(processes[1].create_time, timestamp_sentinels)
    /\ Strip(processes[1].create_time) # <<>>
    /\ Absent(processes[1].create_time)
    /\ Len(events) = 1
    /\ events[1].event_type = "process_exited"

Suspicious(procs) == SelectSeq(procs, LAMBDA p : p.is_suspicious)

\* C10: with suspicious_only every returned event is of a record whose
\* is_suspicious flag is set, and the run ends as the run without the flag
\* on the list of the suspicious records ends.
C10_SuspiciousOnly ==
    (TimelineEnded /\ suspicious_only) =>
        /\ \A k \in 1..Len(events) :
              /\ events[k].details.is_suspicious
              /\ events[k].is_suspicious
        /\ Outcome = generate_timeline(Suspicious(processes), include_types, FALSE)

\* a returned run with the flag over a suspicious record that gave a created
\* and an exited event and a record that is not suspicious and would have
\* given events too
C10_Witness ==
    /\ TimelineDone
    /\ suspicious_only
    /\ \E k \in 1..Len(events) : events[k].event_type = "process_created"
    /\ \E k \in 1..Len(events) : events[k].event_type = "process_exited"
    /\ \E i \in 1..Len(processes) :
          /\ ~processes[i].is_suspicious
          /\ created_events(processes[i]).value[1] # <<>>
          /\ exited_events(processes[i]).value[1] # <<>>

-----------------------------------------------------------------------------
\* the list of types that was given
GivenTypes == include_types[1]

OfGivenTypes(evs) == SelectSeq(evs, LAMBDA e : InList(e.event_type, GivenTypes))

\* the sorted list of the same run without include_types
UnfilteredTimeline == generate_timeline(processes, <<>>, suspicious_only).value[1]

\* C11: whenever include_types is given, the empty list included, every
\* returned event has its type in it, and the result is the unfiltered sorted
\* timeline restricted to those types, which is also the sorted list of the
\* emitted events of those types.
C11_IncludeTypes ==
    (TimelineDone /\ include_types # <<>>) =>
        /\ \A k \in 1..Len(events) : InList(events[k].event_type, GivenTypes)
        /\ events = OfGivenTypes(UnfilteredTimeline)
        /\ events = sorted_by_timestamp(OfGivenTypes(Emitted))

\* C11, for a list of types that is not empty: this part of the claim holds
\* of the code
C11_HoldsForNonEmptyList ==
    (TimelineDone /\ include_types # <<>> /\ GivenTypes # <<>>) =>
        /\ \A k \in 1..Len(events) : InList(events[k].event_type, GivenTypes)
        /\ events = OfGivenTypes(UnfilteredTimeline)
        /\ events = sorted_by_timestamp(OfGivenTypes(Emitted))

\* a run with one type given that returned some events and dropped others
C11_HoldsForNonEmptyList_Witness ==
    /\ TimelineDone
    /\ include_types # <<>>
    /\ Len(GivenTypes) = 1
    /\ events # <<>>
    /\ Len(events) < Len(UnfilteredTimeline)
    /\ Len(Emitted) >= 3

-----------------------------------------------------------------------------
(* Failure of the fetch *)

StoreUnavailable == store_error # ""

DetectEnded == dpc \in {"done", "raised"}

ReportEnded == rpc \in {"done", "raised"}

\* what each operation would return for the stored dump, were the store available
WouldFind == detect(store, common_order, single_order)

WouldEmit == generate_timeline(store, include_types, suspicious_only)

\* C12: when get_processes fails for the dump, each of detect_anomalies,
\* get_anomaly_report and generate_timeline that has ended has ended with that
\* same exception, and has returned nothing: no finding list, no report (no
\* line of one, so no "no anomalies" statement) and no event list, and no
\* record has been fetched.
C12_FetchFailureFatal ==
    StoreUnavailable =>
        /\ processes = <<>>
        /\ DetectEnded =>
              dpc = "raised" /\ draised = store_error /\ anomalies = <<>>
        /\ ReportEnded =>
              /\ rpc = "raised"
              /\ rraised = store_error
              /\ reported = <<>>
              /\ report = <<>>
        /\ TimelineEnded =>
              tpc = "raised" /\ raised = store_error /\ events = <<>>

\* the three operations have failed on a dump for which an available store
\* gives findings and events
C12_Witness ==
    /\ StoreUnavailable
    /\ dpc = "raised"
    /\ rpc = "raised"
    /\ tpc = "raised"
    /\ \/ WouldFind # <<>>
       \/ WouldEmit.raised = "" /\ WouldEmit.value[1] # <<>>

-----------------------------------------------------------------------------
(* Completion of generate_timeline *)

\* the events the loop appended whose timestamp carries a UTC offset, and
\* those whose timestamp carries none
AwareEmitted == SelectSeq(Emitted, LAMBDA e : IsAware(e.timestamp))

NaiveEmitted == SelectSeq(Emitted, LAMBDA e : ~IsAware(e.timestamp))

\* C13: generate_timeline completes without raising for every process list
\* the store returns, whatever strings create_time and exit_time hold, also
\* when some timestamps parse without a UTC offset and others with one.
C13_NeverRaises == TimelineEnded => TimelineDone

\* the run that raised did so in the sort, with TypeError, over events of
\* which one has a UTC offset and one has none; every other run returns
C13_RaisesOnlyOnMixedOffsets ==
    TimelineEnded =>
        (tpc = "raised" <=> (AwareEmitted # <<>> /\ NaiveEmitted # <<>>))
            /\ (tpc = "raised" => raised = "TypeError")

C13_RaisesOnlyOnMixedOffsets_Witness ==
    /\ tpc = "raised"
    /\ raised = "TypeError"
    /\ Len(AwareEmitted) = 1
    /\ Len(NaiveEmitted) = 1

-----------------------------------------------------------------------------
(* Several calls in progress *)

RunEnded(r) == runs[r].pc \in {"done", "raised"}

\* the outcome of call r
RunOutcome(r) ==
    IF runs[r].pc = "done" THEN Returned(runs[r].result) ELSE Raised(runs[r].raised)

\* the outcome of the operation of call r executed alone on its dump's list
Alone(r) ==
    IF runs[r].op = "detect_anomalies"
    THEN Returned(detect(dumps[runs[r].dump_id], common_order, single_order))
    ELSE generate_timeline(dumps[runs[r].dump_id], <<>>, runs[r].only)

\* the pids of the records of a dump
PidsOf(d) == {dumps[d][k].pid : k \in 1..Len(dumps[d])}

\* the pids a finding or an event names
NamedPids(x) ==
    IF "pids" \in DOMAIN x
    THEN {x.pids[k] : k \in 1..Len(x.pids)}
    ELSE {x.pid}

\* every finding or event call r returned names pids of its own dump only
OwnResult(r) ==
    \A k \in 1..Len(runs[r].result) :
        NamedPids(runs[r].result[k]) \subseteq PidsOf(runs[r].dump_id)

\* C14: when calls of detect_anomalies or generate_timeline for different
\* dump ids on the same instance are interleaved in any way at the await of
\* the fetch, each call that has ended has the outcome its operation has when
\* executed alone on its own dump's list, it names no pid of the other dump,
\* and the engine's name tables are what the constructor set.
C14_Isolation ==
    /\ \A r, q \in RunIds :
          (r # q /\ RunEnded(r) /\ runs[q].dump_id # runs[r].dump_id) =>
              /\ RunOutcome(r) = Alone(r)
              /\ OwnResult(r)
    /\ common_order = common_names_literal
    /\ single_order = single_instance_literal

\* two calls of detect_anomalies for different dumps, the second made while
\* the first was suspended, both returning findings
C14_Witness ==
    /\ schedule = <<<<1, "call">>, <<2, "call">>, <<1, "return">>, <<2, "return">>>>
    /\ runs[1].dump_id # runs[2].dump_id
    /\ \A r \in RunIds :
          /\ runs[r].op = "detect_anomalies"
          /\ runs[r].pc = "done"
          /\ runs[r].result # <<>>

\* the same for two calls of generate_timeline, returning in the other order
C14_TimelineWitness ==
    /\ schedule = <<<<1, "call">>, <<2, "call">>, <<2, "return">>, <<1, "return">>>>
    /\ runs[1].dump_id # runs[2].dump_id
    /\ \A r \in RunIds :
          /\ runs[r].op = "generate_timeline"
          /\ runs[r].pc = "done"
          /\ Len(runs[r].result) >= 2

-----------------------------------------------------------------------------
(* Order of the input records *)

\* the orders a list of n records can be put in
Orderings(n) ==
    {q \in [1..n -> 1..n] : \A i, j \in 1..n : q[i] = q[j] => i = j}

Permuted(procs, q) == [k \in 1..Len(procs) |-> procs[q[k]]]

PerProcessFindings(found) == SelectSeq(found, LAMBDA f : f.type \in PerProcessTypes)

AllDuplicateFindings(found) == SelectSeq(found, LAMBDA f : f.type = "duplicate_instance")

\* how many times the per-process finding f is in the list
TimesIn(f, found) ==
    Cardinality({k \in 1..Len(found) : found[k].type = f.type /\ found[k] = f})

\* the two lists hold the same per-process findings, each as many times
SamePerProcess(a, b) ==
    /\ Len(a) = Len(b)
    /\ \A k \in 1..Len(a) : TimesIn(a[k], a) = TimesIn(a[k], b)

\* the (name, count) pairs of the duplicate_instance findings
NameCounts(found) == {<<found[k].process, found[k].count>> : k \in 1..Len(found)}

\* C15: for a process table with unique pids, detect_anomalies over any
\* permutation of the records returns the same per-process findings, each as
\* many times (a finding is its type, pid and evidence fields), and
\* duplicate_instance findings with the same set of (name, count) pairs.
C15_OrderIndependent ==
    (Done /\ UniquePids(processes)) =>
        \A q \in Orderings(Len(processes)) :
            \E other \in {detect(Permuted(processes, q), common_order, single_order)} :
                /\ SamePerProcess(PerProcessFindings(anomalies),
                                  PerProcessFindings(other))
                /\ NameCounts(AllDuplicateFindings(anomalies))
                      = NameCounts(AllDuplicateFindings(other))
                /\ Len(AllDuplicateFindings(anomalies)) = Len(AllDuplicateFindings(other))

\* three records with unique pids, a child listed before its parent, a
\* finding of the parent rule and a permutation that changes the returned list
C15_Witness ==
    /\ Done
    /\ UniquePids(processes)
    /\ Len(processes) = 3
    /\ \E f \in {anomalies[k] : k \in 1..Len(anomalies)} :
          /\ f.type \in ParentTypes
          /\ PositionOf(processes, f.pid) < PositionOf(processes, f.parent_pid)
    /\ \E q \in Orderings(3) :
          detect(Permuted(processes, q), common_order, single_order) # anomalies

-----------------------------------------------------------------------------
(* Iteration order of the name sets *)

\* the list detect_anomalies returns over the fetched list when the name sets
\* iterate in order o
FoundUnder(o) == detect(processes, o.common, o.single)

\* a finding without the fields the iteration order of common_names picks
WithoutSimilar(f) ==
    IF f.type = "misspelled_name"
    THEN [type |-> f.type, severity |-> f.severity, pid |-> f.pid, process |-> f.process]
    ELSE f

\* C16: two executions of detect_anomalies over the same process list return
\* identical lists (the same findings, the same similar_to values, the same
\* order, also among several duplicate_instance findings) whatever order the
\* name sets are iterated in.
C16_Deterministic ==
    Done => \A o \in SetOrders : FoundUnder(o) = anomalies

\* what every iteration order agrees on: the per-process findings, in their
\* order, up to the similar name a misspelled_name finding reports, and the
\* duplicate_instance findings up to their order
C16_SameUpToNameChoice ==
    Done =>
        \A o \in SetOrders :
            \E other \in {FoundUnder(o)} :
                /\ Len(other) = Len(anomalies)
                /\ Len(PerProcessFindings(other)) = Len(PerProcessFindings(anomalies))
                /\ \A k \in 1..Len(PerProcessFindings(anomalies)) :
                      /\ other[k].type = anomalies[k].type
                      /\ WithoutSimilar(other[k]) = WithoutSimilar(anomalies[k])
                /\ \A k \in 1..Len(AllDuplicateFindings(anomalies)) :
                      \E m \in 1..Len(AllDuplicateFindings(other)) :
                          AllDuplicateFindings(other)[m] = AllDuplicateFindings(anomalies)[k]

\* a name close to two common names, of which each order reports another
C16_SameUpToNameChoice_Witness ==
    /\ Done
    /\ \E o \in SetOrders :
          \E k \in 1..Len(PerProcessFindings(anomalies)) :
              /\ anomalies[k].type = "misspelled_name"
              /\ FoundUnder(o)[k].similar_to # anomalies[k].similar_to

\* two duplicated single-instance names, which each order reports in another
\* order
C16_DuplicateOrder_Witness ==
    /\ Done
    /\ Len(AllDuplicateFindings(anomalies)) = 2
    /\ \E o \in SetOrders :
          /\ AllDuplicateFindings(FoundUnder(o)) # AllDuplicateFindings(anomalies)
          /\ PerProcessFindings(FoundUnder(o)) = PerProcessFindings(anomalies)

-----------------------------------------------------------------------------
(* Two calls for the same dump *)

\* call r is generate_timeline(dump_id) with no filters, and has ended
UnfilteredEnded(r) ==
    /\ runs[r].op = "generate_timeline"
    /\ ~runs[r].only
    /\ RunEnded(r)

\* the records call r was handed by the store
FetchedBy(r) == frames[frame(r)].processes

\* C17: two calls of generate_timeline with the same dump id, the same stored
\* list and no filters end alike, and when they return their lists are equal
\* element by element, in the same order; the records a returned call was
\* handed are still the stored records of its dump.
C17_Idempotent ==
    /\ \A r, q \in RunIds :
          (UnfilteredEnded(r) /\ UnfilteredEnded(q)
              /\ runs[r].dump_id = runs[q].dump_id) =>
                /\ runs[r].pc = runs[q].pc
                /\ runs[r].raised = runs[q].raised
                /\ Len(runs[r].result) = Len(runs[q].result)
                /\ \A k \in 1..Len(runs[r].result) :
                      runs[r].result[k] = runs[q].result[k]
    /\ \A r \in RunIds :
          (UnfilteredEnded(r) /\ runs[r].pc = "done") =>
              dumps[runs[r].dump_id] = FetchedBy(r)

\* the second call is made after the first returned; both return the same
\* three or more events
C17_Witness ==
    /\ schedule = <<<<1, "call">>, <<1, "return">>, <<2, "call">>, <<2, "return">>>>
    /\ UnfilteredEnded(1)
    /\ UnfilteredEnded(2)
    /\ runs[1].dump_id = runs[2].dump_id
    /\ runs[1].pc = "done"
    /\ Len(runs[1].result) >= 3
    /\ runs[2].result = runs[1].result
    /\ dumps[runs[1].dump_id] = FetchedBy(1)

-----------------------------------------------------------------------------
(* The report *)

ReportDone == rpc = "done"

\* the places of the lines of a kind
PlacesOf(kind) == {k \in 1..Len(report) : report[k].kind = kind}

\* the place of the header of a tier, 0 when the report has none
HeaderOf(tier) ==
    IF \E k \in PlacesOf("header") : report[k].tier = tier
    THEN CHOOSE k \in PlacesOf("header") : report[k].tier = tier
    ELSE 0

\* the tier of the section an item line stands in: that of the last header
\* before it
SectionOf(k) ==
    report[CHOOSE h \in PlacesOf("header") :
              h < k /\ \A g \in PlacesOf("header") : g < k => g <= h].tier

\* the descriptions listed in the section of a tier, in the order of the lines
ListedIn(tier) ==
    LET at == SelectSeq([k \in 1..Len(report) |-> k],
                        LAMBDA k : /\ report[k].kind = "item"
                                   /\ \E h \in PlacesOf("header") : h < k
                                   /\ SectionOf(k) = tier)
    IN  [m \in 1..Len(at) |-> report[at[m]].item[1]]

\* the descriptions of the findings of a tier, in detection order
DescriptionsOf(tier) ==
    LET found == of_severity(reported, tier)
    IN  [m \in 1..Len(found) |-> description_of(found[m])]

\* the number a count line of the tier prints
Printed(tier) ==
    report[CHOOSE k \in PlacesOf("count") : report[k].tier = tier].count

Tiers == <<"critical", "high", "medium">>

\* C18: the report is the 'no anomalies' statement exactly when
\* detect_anomalies returned an empty list; otherwise every item line stands
\* under a header, the section of each tier lists the descriptions of the
\* findings of that tier in detection order (so each finding is listed once,
\* in one section), a tier has a header exactly when it has findings, the
\* headers come in the order critical, high, medium, and the printed total is
\* the number of findings and the sum of the three printed counts.
C18_ReportRendering ==
    ReportDone =>
        /\ (PlacesOf("no_anomalies") # {}) <=> (reported = <<>>)
        /\ reported = <<>> => PlacesOf("item") \cup PlacesOf("total") = {}
        /\ reported # <<>> =>
              /\ \A k \in PlacesOf("item") : \E h \in PlacesOf("header") : h < k
              /\ \A t \in 1..3 :
                    /\ ListedIn(Tiers[t]) = DescriptionsOf(Tiers[t])
                    /\ (HeaderOf(Tiers[t]) # 0) <=> (DescriptionsOf(Tiers[t]) # <<>>)
                    /\ Cardinality({k \in PlacesOf("header") : report[k].tier = Tiers[t]}) <= 1
              /\ \A t, u \in 1..3 :
                    (t < u /\ HeaderOf(Tiers[t]) # 0 /\ HeaderOf(Tiers[u]) # 0) =>
                        HeaderOf(Tiers[t]) < HeaderOf(Tiers[u])
              /\ Cardinality(PlacesOf("item")) = Len(reported)
              /\ \E k \in PlacesOf("total") :
                    /\ report[k].count = Len(reported)
                    /\ report[k].count
                          = Printed("critical") + Printed("high") + Printed("medium")
              /\ \A k \in 1..Len(reported) :
                    reported[k].severity \in {"critical", "high", "medium"}

\* a report with the three sections, of which one lists two findings
C18_Witness ==
    /\ ReportDone
    /\ HeaderOf("critical") # 0
    /\ HeaderOf("high") # 0
    /\ HeaderOf("medium") # 0
    /\ \E t \in 1..3 : Len(ListedIn(Tiers[t])) >= 2

\* the report of a dump without findings
C18_NoAnomalies_Witness ==
    /\ ReportDone
    /\ processes # <<>>
    /\ PlacesOf("no_anomalies") # {}

-----------------------------------------------------------------------------
(* Resolution of the parent *)

\* the type of the finding rules 1 and 2 give a process whose parent has
\* this name: rule 1 when an entry lists the process under another parent,
\* else rule 2 for an office application under a shell, else none ("")
ParentVerdict(procs, proc) ==
    IF MismatchedEntries(lower(proc.name), ResolvedParentName(procs, proc)) # <<>>
    THEN "unexpected_parent"
    ELSE IF C4_Condition(procs, proc)
    THEN "suspicious_parent_child"
    ELSE ""

\* rules 1 and 2 were evaluated for the process against its resolved parent
ParentRulesEvaluated(procs, found, proc) ==
    LET got == FindingsOf(found, ParentTypes, proc.pid)
    IN  IF ParentVerdict(procs, proc) = ""
        THEN got = <<>>
        ELSE /\ Len(got) = 1
             /\ got[1].type = ParentVerdict(procs, proc)
             /\ got[1].parent_pid = proc.ppid[1]
             /\ got[1].parent_name = ResolvedParentName(procs, proc)

\* rules 3 to 6 were evaluated for the process: its name and path findings
\* are those of the two checks, and it is listed in a duplicate_instance
\* finding when its name is a single-instance name that several records bear
OtherRulesEvaluated(procs, found, order, proc) ==
    /\ FindingsOf(found, {"misspelled_name"} \cup PathTypes, proc.pid)
          = _check_misspelled_name(proc, order) \o _check_unusual_path(proc)
    /\ (/\ lower(proc.name) \in single_instance_processes
        /\ \E k \in 1..Len(procs) :
              procs[k].pid # proc.pid /\ lower(procs[k].name) = lower(proc.name)) =>
          \E f \in {found[k] : k \in 1..Len(found)} :
              /\ f.type = "duplicate_instance"
              /\ f.process = lower(proc.name)
              /\ proc.pid \in {f.pids[k] : k \in 1..Len(f.pids)}

\* C20: rules 1 and 2 are skipped for a process exactly when its ppid is
\* absent or is the pid of no record; a ppid that is the pid of a record, 0
\* matching a record of pid 0 included, resolves and both rules are evaluated;
\* and a process whose ppid does not resolve still gets rules 3 to 6.
C20_SkippedIffUnresolved ==
    (Done /\ UniquePids(processes)) =>
        \A i \in 1..Len(processes) :
            IF Resolves(processes, processes[i])
            THEN ParentRulesEvaluated(processes, anomalies, processes[i])
            ELSE /\ FindingsOf(anomalies, ParentTypes, processes[i].pid) = <<>>
                 /\ OtherRulesEvaluated(processes, anomalies, common_order, processes[i])

\* the same for every ppid but 0, and a process of ppid 0 is always skipped
\* by rules 1 and 2 and still gets rules 3 to 6
C20_HoldsForNonZeroPpid ==
    (Done /\ UniquePids(processes)) =>
        \A i \in 1..Len(processes) :
            IF Resolves(processes, processes[i]) /\ processes[i].ppid[1] # 0
            THEN ParentRulesEvaluated(processes, anomalies, processes[i])
            ELSE /\ FindingsOf(anomalies, ParentTypes, processes[i].pid) = <<>>
                 /\ OtherRulesEvaluated(processes, anomalies, common_order, processes[i])

\* a resolved parent with a finding of rule 1 or 2, next to a process whose
\* ppid names no record and which has a name or path finding
C20_HoldsForNonZeroPpid_Witness ==
    /\ Done
    /\ UniquePids(processes)
    /\ \E i, j \in 1..Len(processes) :
          /\ Resolves(processes, processes[i])
          /\ processes[i].ppid[1] # 0
          /\ ParentVerdict(processes, processes[i]) # ""
          /\ processes[j].ppid # <<>>
          /\ ~Resolves(processes, processes[j])
          /\ FindingsOf(anomalies, {"misspelled_name"} \cup PathTypes, processes[j].pid) # <<>>

\* a process of ppid 0 under a record of pid 0 that rules 1 and 2 would flag
C20_PpidZero_Witness ==
    /\ Done
    /\ UniquePids(processes)
    /\ \E i \in 1..Len(processes) :
          /\ Resolves(processes, processes[i])
          /\ processes[i].ppid[1] = 0
          /\ ParentVerdict(processes, processes[i]) # ""
          /\ FindingsOf(anomalies, ParentTypes, processes[i].pid) = <<>>

-----------------------------------------------------------------------------
(* Records that share a pid *)

\* the place of the last record of the list with this pid, 0 when none has it
LastWith(procs, pid) ==
    IF \E k \in 1..Len(procs) : procs[k].pid = pid
    THEN CHOOSE k \in 1..Len(procs) :
            /\ procs[k].pid = pid
            /\ \A m \in 1..Len(procs) : procs[m].pid = pid => m <= k
    ELSE 0

\* the type of the finding rules 1 and 2 give a process under a parent of
\* this name, "" when they give none
VerdictUnder(proc, parent_name) ==
    IF MismatchedEntries(lower(proc.name), parent_name) # <<>>
    THEN "unexpected_parent"
    ELSE IF parent_name \in C4_Shells /\ lower(proc.name) \in C4_Office
    THEN "suspicious_parent_child"
    ELSE ""

\* what identifies a per-process finding here: type, pid, and the parent name
\* of a finding of rules 1 and 2
Brief(f) ==
    [type |-> f.type, pid |-> f.pid,
     parent_name |-> IF f.type \in ParentTypes THEN f.parent_name ELSE <<>>]

Briefs(found) == [k \in 1..Len(found) |-> Brief(found[k])]

\* the per-process findings of the whole list when a ppid resolves to the
\* last record carrying that pid and each record is evaluated in its turn by
\* the three checks; skip holds the ppids taken as absent
RECURSIVE ExpectedBriefs(_, _, _, _)
ExpectedBriefs(procs, order, skip, i) ==
    IF i > Len(procs)
    THEN <<>>
    ELSE (IF procs[i].ppid = <<>> \/ procs[i].ppid[1] \in skip
             \/ LastWith(procs, procs[i].ppid[1]) = 0
             \/ VerdictUnder(procs[i], lower(procs[LastWith(procs, procs[i].ppid[1])].name)) = ""
          THEN <<>>
          ELSE <<[type |-> VerdictUnder(procs[i], lower(procs[LastWith(procs, procs[i].ppid[1])].name)),
                  pid |-> procs[i].pid,
                  parent_name |-> lower(procs[LastWith(procs, procs[i].ppid[1])].name)]>>)
            \o Briefs(_check_misspelled_name(procs[i], order) \o _check_unusual_path(procs[i]))
            \o ExpectedBriefs(procs, order, skip, i + 1)

\* some pid is carried by two records, and a record before the later of them
\* has it as its ppid
ChildBeforeLaterDuplicate(procs, pid) ==
    \E i, j, c \in 1..Len(procs) :
        /\ i < j
        /\ c < j
        /\ procs[i].pid = pid
        /\ procs[j].pid = pid
        /\ lower(procs[i].name) # lower(procs[j].name)
        /\ procs[c].ppid = <<pid>>

\* C19: when several records share a pid the run returns, every process
\* whose ppid is that pid is judged by rules 1 and 2 against the last record
\* in list order carrying the pid, also when the process comes before that
\* record, and every record, duplicates included, is evaluated itself by the
\* per-process rules.
C19_LastWriteWins ==
    (Done /\ ~UniquePids(processes)) =>
        Briefs(PerProcessFindings(anomalies))
            = ExpectedBriefs(processes, common_order, {}, 1)

\* the same for every ppid but 0, which rules 1 and 2 take as absent
C19_HoldsForNonZeroPpid ==
    (Done /\ ~UniquePids(processes)) =>
        Briefs(PerProcessFindings(anomalies))
            = ExpectedBriefs(processes, common_order, {0}, 1)

\* two records of pid 1 with different names, a child of ppid 1 before the
\* later one, and a finding of rule 1 or 2 against the later one's name
C19_HoldsForNonZeroPpid_Witness ==
    /\ Done
    /\ ChildBeforeLaterDuplicate(processes, 1)
    /\ \E k \in 1..Len(anomalies) :
          /\ anomalies[k].type \in ParentTypes
          /\ anomalies[k].parent_pid = 1
          /\ anomalies[k].parent_name = lower(processes[LastWith(processes, 1)].name)

-----------------------------------------------------------------------------
(* Children listed under several parents *)

\* the table parents whose entry lists the lowercase name among its children,
\* the children compared on lowercase names
ListingParents(name) ==
    {expected_parents[k].parent : k \in
        {k \in 1..Len(expected_parents) :
            \E c \in expected_parents[k].children : Lower(c) = name}}

\* the process runs under a parent whose entry lists it
UnderListedParent(procs, proc) ==
    /\ Resolves(procs, proc)
    /\ ResolvedParentName(procs, proc) \in ListingParents(lower(proc.name))

N_wuauclt == <<"w","u","a","u","c","l","t",".","e","x","e">>

\* C21: a process whose resolved parent is a table parent that lists the
\* process's name among its children gets no unexpected_parent finding, also
\* when the name is listed under several parents (wuauclt.exe under
\* services.exe and under svchost.exe) and it runs under any of them.
C21_ListedParentNeverFlagged ==
    (Done /\ UniquePids(processes)) =>
        \A i \in 1..Len(processes) :
            UnderListedParent(processes, processes[i]) =>
                FindingsOf(anomalies, {"unexpected_parent"}, processes[i].pid) = <<>>

\* the same for the names the table lists under one parent only
C21_HoldsForSinglyListed ==
    (Done /\ UniquePids(processes)) =>
        \A i \in 1..Len(processes) :
            (/\ UnderListedParent(processes, processes[i])
             /\ Cardinality(ListingParents(lower(processes[i].name))) = 1) =>
                FindingsOf(anomalies, {"unexpected_parent"}, processes[i].pid) = <<>>

\* svchost.exe under services.exe, its only listed parent, not flagged
C21_HoldsForSinglyListed_Witness ==
    /\ Done
    /\ UniquePids(processes)
    /\ \E i \in 1..Len(processes) :
          /\ lower(processes[i].name) = N_svchost
          /\ processes[i].ppid # <<>>
          /\ processes[i].ppid[1] # 0
          /\ UnderListedParent(processes, processes[i])
          /\ FindingsOf(anomalies, {"unexpected_parent"}, processes[i].pid) = <<>>

\* wuauclt.exe under services.exe, flagged as expecting svchost.exe
C21_BothParents_Witness ==
    /\ Done
    /\ UniquePids(processes)
    /\ \E i \in 1..Len(processes) :
          /\ lower(processes[i].name) = N_wuauclt
          /\ Resolves(processes, processes[i])
          /\ ResolvedParentName(processes, processes[i]) = N_services
          /\ \E f \in {anomalies[k] : k \in 1..Len(anomalies)} :
                f.type = "unexpected_parent" /\ f.expected_parent = N_svchost

-----------------------------------------------------------------------------
(* Children written in mixed case *)

N_onedrive == <<"o","n","e","d","r","i","v","e",".","e","x","e">>

\* the children of the table whose name is not all lowercase
MixedCaseChildren == {c \in ListedChildren : Lower(c) # c}

\* C22: the parent-lineage rule covers the child names the table writes in
\* mixed case, compared on lowercase names: a process whose lowercase name is
\* the lowercase of such a child (onedrive.exe for the entry OneDrive.exe,
\* likewise searchindexer.exe, runtimebroker.exe, logonui.exe) and whose
\* resolved parent is not the parent of that entry gets one unexpected_parent
\* finding, of severity high, as a process of an all-lowercase entry does.
C22_EveryListedChildCovered ==
    (Done /\ UniquePids(processes)) =>
        \A i \in 1..Len(processes) :
            (/\ Resolves(processes, processes[i])
             /\ lower(processes[i].name) \in {Lower(c) : c \in MixedCaseChildren}
             /\ ~UnderListedParent(processes, processes[i])) =>
                \E found \in {FindingsOf(anomalies, {"unexpected_parent"}, processes[i].pid)} :
                    /\ Len(found) = 1
                    /\ found[1].severity = "high"
                    /\ found[1].expected_parent \in ListingParents(lower(processes[i].name))

\* the same for the children written in lowercase and the ppids other than 0
C22_HoldsForLowercaseEntries ==
    (Done /\ UniquePids(processes)) =>
        \A i \in 1..Len(processes) :
            (/\ Resolves(processes, processes[i])
             /\ processes[i].ppid[1] # 0
             /\ lower(processes[i].name) \in ListedChildren
             /\ ~UnderListedParent(processes, processes[i])) =>
                \E found \in {FindingsOf(anomalies, {"unexpected_parent"}, processes[i].pid)} :
                    /\ Len(found) = 1
                    /\ found[1].severity = "high"
                    /\ found[1].expected_parent \in ListingParents(lower(processes[i].name))

\* notepad.exe under services.exe, flagged as expecting explorer.exe
C22_HoldsForLowercaseEntries_Witness ==
    /\ Done
    /\ UniquePids(processes)
    /\ \E i \in 1..Len(processes) :
          /\ lower(processes[i].name) = N_notepad
          /\ Resolves(processes, processes[i])
          /\ processes[i].ppid[1] # 0
          /\ ResolvedParentName(processes, processes[i]) = N_services
          /\ FindingsOf(anomalies, {"unexpected_parent"}, processes[i].pid) # <<>>

\* a process of a child name the table writes in mixed case, under a parent
\* of pid other than 0 that does not list it: no rule 1 finding at all
C22_MixedCase_Witness ==
    /\ Done
    /\ UniquePids(processes)
    /\ \E i \in 1..Len(processes) :
          /\ lower(processes[i].name) = N_onedrive
          /\ lower(processes[i].name) \in {Lower(c) : c \in MixedCaseChildren}
          /\ Resolves(processes, processes[i])
          /\ processes[i].ppid[1] # 0
          /\ ~UnderListedParent(processes, processes[i])
          /\ FindingsOf(anomalies, ParentTypes, processes[i].pid) = <<>>

-----------------------------------------------------------------------------
(* Suspicious directories *)

\* \Temp\ (a directory named Temp), \AppData\Local\Temp, \Users\Public,
\* \ProgramData, C:\$Recycle.Bin
SuspiciousDirectories ==
    <<
      <<"\\","T","e","m","p","\\">>,
      <<"\\","A","p","p","D","a","t","a","\\","L","o","c","a","l","\\","T","e","m","p">>,
      <<"\\","U","s","e","r","s","\\","P","u","b","l","i","c">>,
      <<"\\","P","r","o","g","r","a","m","D","a","t","a">>,
      <<"C",":","\\","$","R","e","c","y","c","l","e",".","B","i","n">>
    >>

InSuspiciousDirectoryTable ==
    [p \in InputPaths |->
        \E k \in 1..Len(SuspiciousDirectories) : Contains(p, SuspiciousDirectories[k])]

\* the path lies in a temp directory, the public profile, program-data or
\* the recycle bin
InSuspiciousDirectory(p) == InSuspiciousDirectoryTable[p]

\* the path has a directory named Temp, and holds none of the strings of
\* suspicious_paths
TempBySingleBackslash(p) == InSuspiciousDirectory(p) /\ ~PathSuspicious(p)

\* C:\Windows\Temp\x.exe
P_windows_temp ==
    <<"C",":","\\","W","i","n","d","o","w","s","\\","T","e","m","p","\\","x",".","e","x","e">>

\* C23: a process that the unusual-path rule does not flag and whose path is
\* present and no sentinel gets a suspicious_path finding (one, of severity
\* medium) if and only if the path lies in a temp directory, the public user
\* profile, program-data or the recycle bin; C:\Windows\Temp\x.exe is such a
\* path.
C23_SuspiciousPath ==
    (Done /\ UniquePids(processes)) =>
        \A i \in 1..Len(processes) :
            (/\ processes[i].path \notin SentinelPaths
             /\ FindingsOf(anomalies, {"unusual_path"}, processes[i].pid) = <<>>) =>
                \E found \in {FindingsOf(anomalies, {"suspicious_path"}, processes[i].pid)} :
                    IF InSuspiciousDirectory(processes[i].path)
                    THEN Len(found) = 1 /\ found[1].severity = "medium"
                    ELSE found = <<>>

\* the same for every path but those whose only suspicious part is a
\* directory named Temp followed by one backslash
C23_HoldsUnlessTempBySingleBackslash ==
    (Done /\ UniquePids(processes)) =>
        \A i \in 1..Len(processes) :
            (/\ processes[i].path \notin SentinelPaths
             /\ ~TempBySingleBackslash(processes[i].path)
             /\ FindingsOf(anomalies, {"unusual_path"}, processes[i].pid) = <<>>) =>
                \E found \in {FindingsOf(anomalies, {"suspicious_path"}, processes[i].pid)} :
                    IF InSuspiciousDirectory(processes[i].path)
                    THEN Len(found) = 1 /\ found[1].severity = "medium"
                    ELSE found = <<>>

\* a process under \Users\Public, not flagged by the unusual-path rule, flagged
C23_HoldsUnlessTempBySingleBackslash_Witness ==
    /\ Done
    /\ UniquePids(processes)
    /\ \E i \in 1..Len(processes) :
          /\ InSuspiciousDirectory(processes[i].path)
          /\ Contains(processes[i].path, SuspiciousDirectories[3])
          /\ Len(FindingsOf(anomalies, {"suspicious_path"}, processes[i].pid)) = 1

\* C:\Windows\Temp\x.exe under a name that is no common name: no path finding
C23_WindowsTemp_Witness ==
    /\ Done
    /\ UniquePids(processes)
    /\ \E i \in 1..Len(processes) :
          /\ processes[i].path = P_windows_temp
          /\ lower(processes[i].name) \notin common_names
          /\ FindingsOf(anomalies, PathTypes, processes[i].pid) = <<>>

-----------------------------------------------------------------------------
(* Events of one record *)

\* the string normalizes to an instant
Normalizes(s) == ~Absent(s)

\* what an event carries of its record
Carried(event_type, pid, name, flag) ==
    [event_type |-> event_type, pid |-> pid, process_name |-> name,
     is_suspicious |-> flag]

CarriedBy(e) == Carried(e.event_type, e.pid, e.process_name, e.is_suspicious)

\* the events of one record: none when the suspicious_only filter drops it,
\* else a created event when create_time normalizes, then an exited event
\* when exit_time normalizes, each decided by its own field
EventsOfRecord(proc, only) ==
    IF only /\ ~proc.is_suspicious
    THEN <<>>
    ELSE (IF Normalizes(proc.create_time)
          THEN <<Carried("process_created", proc.pid, proc.name, proc.is_suspicious)>>
          ELSE <<>>)
         \o (IF Normalizes(proc.exit_time)
             THEN <<Carried("process_exited", proc.pid, proc.name, proc.is_suspicious)>>
             ELSE <<>>)

RECURSIVE EventsOfRecords(_, _, _)
\* the events of the records from the i-th on, in the order of the list
EventsOfRecords(procs, only, i) ==
    IF i > Len(procs)
    THEN <<>>
    ELSE EventsOfRecord(procs[i], only) \o EventsOfRecords(procs, only, i + 1)

\* how many times the event is in the list
EventTimesIn(e, evs) == Cardinality({k \in 1..Len(evs) : evs[k] = e})

\* C24: for each record that passes the suspicious_only filter the loop of
\* generate_timeline appends one process_created event exactly when
\* create_time normalizes and one process_exited event exactly when exit_time
\* is present, no sentinel and normalizes, each decision on its own field, the
\* events carrying the record's pid, name and is_suspicious flag and the
\* record itself; and the timeline returned without a type filter holds these
\* events and no other, so its length is the sum of the per-record counts.
C24_EventsPerRecord ==
    TimelineEnded =>
        /\ [k \in 1..Len(Emitted) |-> CarriedBy(Emitted[k])]
              = EventsOfRecords(processes, suspicious_only, 1)
        /\ \A k \in 1..Len(Emitted) :
              /\ Emitted[k].details.pid = Emitted[k].pid
              /\ Emitted[k].details.name = Emitted[k].process_name
              /\ Emitted[k].details.is_suspicious = Emitted[k].is_suspicious
        /\ (TimelineDone /\ include_types = <<>>) =>
              /\ Len(events) = Len(EventsOfRecords(processes, suspicious_only, 1))
              /\ \A k \in 1..Len(Emitted) :
                    EventTimesIn(Emitted[k], events) = EventTimesIn(Emitted[k], Emitted)

\* an unfiltered returned timeline over three records: one gives only its
\* exited event (its create_time is a string no format reads), one gives two
\* events, one gives none
C24_Witness ==
    /\ TimelineDone
    /\ include_types = <<>>
    /\ ~suspicious_only
    /\ Len(processes) = 3
    /\ Len(events) = 3
    /\ \E i, j, k \in 1..3 :
          /\ processes[i].create_time # <<>>
          /\ ~Normalizes(processes[i].create_time)
          /\ Normalizes(processes[i].exit_time)
          /\ Len(EventsOfRecord(processes[i], FALSE)) = 1
          /\ Len(EventsOfRecord(processes[j], FALSE)) = 2
          /\ Len(EventsOfRecord(processes[k], FALSE)) = 0

=============================================================================
